---------------------------- MODULE Spec2Model ----------------------------
(***************************************************************************)
(* A model of tsid.go: the Builder (Make, tick, Next, ResetEpoch), the     *)
(* ID value (Bytes) and the Base64 codec (Encode, Decode).                 *)
(*                                                                         *)
(* Go's int64/uint64 values are modelled at their full width as the set of *)
(* the positions of their 1 bits (a subset of 0..63, bit 63 the sign bit   *)
(* of an int64), so that masks, shifts, wrap-around and the 63-bit         *)
(* boundary of the packer are those of the code.                           *)
(***************************************************************************)
EXTENDS Integers, Sequences, FiniteSets, TLC

-----------------------------------------------------------------------------
(* 64-bit machine words *)

W64 == 0..63

Pow2(n) == 2 ^ n

\* the word holding the natural number n (n < 2^31)
FromNat(n) == {i \in 0..30 : (n \div Pow2(i)) % 2 = 1}

RECURSIVE ToNat(_)
\* the natural number held by a word below 2^31
ToNat(a) == IF a = {} THEN 0
            ELSE LET i == CHOOSE j \in a : TRUE IN Pow2(i) + ToNat(a \ {i})

Zero == {}
One == {0}
Mask16 == 0..15

And(a, b) == a \cap b
Or(a, b) == a \cup b
Xor(a, b) == (a \ b) \cup (b \ a)
Not(a) == W64 \ a

\* a << k and a >> k on uint64 (a shift count of 64 or more gives 0)
Shl(a, k) == {i + k : i \in a} \cap W64
Shr(a, k) == {i - k : i \in {j \in a : j >= k}}

\* one doubling step of the carry look-ahead: gp = <<generate, propagate>>
CarryStep(gp, k) ==
    <<gp[1] \cup (gp[2] \cap Shl(gp[1], k)), gp[2] \cap Shl(gp[2], k)>>

\* the bit positions that produce a carry in a + b
Carries(a, b) ==
    CarryStep(CarryStep(CarryStep(CarryStep(CarryStep(CarryStep(
        <<And(a, b), Xor(a, b)>>, 1), 2), 4), 8), 16), 32)[1]

\* a + b modulo 2^64
Add(a, b) == Xor(Xor(a, b), Shl(Carries(a, b), 1))

Neg(a) == Add(Not(a), One)
Sub(a, b) == Add(a, Neg(b))

RECURSIVE MulBits(_, _)
\* the sum of a << i over the bits i of b
MulBits(a, b) == IF b = {} THEN Zero
                 ELSE LET i == CHOOSE j \in b : TRUE
                      IN Add(Shl(a, i), MulBits(a, b \ {i}))

\* a * b modulo 2^64 (summing over the operand with fewer one bits)
Mul(a, b) == IF Cardinality(b) <= Cardinality(a) THEN MulBits(a, b)
             ELSE MulBits(b, a)

RECURSIVE TopBitIn(_, _, _)
\* the highest position of the non-zero word a within lo..hi, by bisection
TopBitIn(a, lo, hi) ==
    IF lo = hi THEN lo
    ELSE LET mid == (lo + hi + 1) \div 2
         IN IF a \cap (mid..hi) # {} THEN TopBitIn(a, mid, hi)
            ELSE TopBitIn(a, lo, mid - 1)

TopBit(a) == TopBitIn(a, 0, 63)

\* unsigned and signed (two's complement) comparison
ULess(a, b) == a # b /\ TopBit(Xor(a, b)) \in b
ULeq(a, b) == a = b \/ ULess(a, b)
SLess(a, b) == IF (63 \in a) # (63 \in b) THEN 63 \in a ELSE ULess(a, b)
SLeq(a, b) == a = b \/ SLess(a, b)

\* the 16-bit limb k of a word, as a number
Limb(a, k) == ToNat(And(Shr(a, 16 * k), Mask16))

\* one step of the long division by the small number d (d < 2^15): the limb k
\* of a joins the remainder r; qr = <<quotient so far, remainder>>
DivStep(a, d, k, qr) ==
    LET n == qr[2] * 65536 + Limb(a, k)
    IN <<Or(qr[1], Shl(FromNat(n \div d), 16 * k)), n % d>>

\* <<quotient, remainder>> of the non-negative word a by the small number d
DivRem(a, d) ==
    DivStep(a, d, 0, DivStep(a, d, 1, DivStep(a, d, 2,
        DivStep(a, d, 3, <<Zero, 0>>))))

Div(a, d) == DivRem(a, d)[1]
Mod(a, d) == DivRem(a, d)[2]

\* -1 ^ (-1 << w)
Mask(w) == IF w >= 64 THEN W64 ELSE 0..(w - 1)


-----------------------------------------------------------------------------
(* The ID value and the Base64 codec.  A string is the sequence of its     *)
(* characters; a character of base64Digits is its position 0..63 in that   *)
(* alphabet (the padding character '0' is position 0), '!' is              *)
(* base64Signed and OtherChar is a character outside the alphabet.         *)

base64Widths == 11
base64Signed == 64
OtherChar == 65
Chars == 0..65

cutoff == {63}
maxVal == W64

NilID == [Main |-> Zero, Ext |-> Zero, Signed |-> FALSE]

\* make([]byte, n)
MakeBytes(n) == [i \in 1..n |-> 0]

\* binary.LittleEndian.AppendUint64(b, v): a new slice, b followed by v's bytes
AppendUint64(b, v) ==
    b \o [i \in 1..8 |-> ToNat(And(Shr(v, 8 * (i - 1)), Mask(8)))]

\* binary.LittleEndian.Uint64(b)
Uint64(b) == UNION {Shl(FromNat(b[i]), 8 * (i - 1)) : i \in 1..8}

\* ID.Bytes: the slices AppendUint64 returns are dropped, m and e stay as made
Bytes(id) ==
    LET m == MakeBytes(8)
        dropped1 == AppendUint64(m, id.Main)
        e == MakeBytes(8)
        dropped2 == IF SLess(Zero, id.Ext) THEN AppendUint64(e, id.Ext) ELSE e
    IN m \o e

RECURSIVE formatDigits(_)
formatDigits(v) ==
    IF ULess(v, FromNat(64)) THEN <<ToNat(v)>>
    ELSE Append(formatDigits(Shr(v, 6)), ToNat(And(v, Mask(6))))

formatBits(u) == formatDigits(IF 63 \in u THEN Neg(u) ELSE u)

\* a variant of Paddings that pads nothing, as if Aligned were ignored
PaddingsNone(n) == <<>>

\* base64Paddings[:n]
Paddings(n) == [i \in 1..n |-> 0]

\* a variant of Encode that pads the Main part only when Aligned is set
EncodeMainAsIs(Aligned, id) ==
    LET extPos == SLess(Zero, id.Ext)
        mainPos == SLess(Zero, id.Main)
        buf0 == IF extPos THEN formatBits(id.Ext) ELSE <<>>
        pad0 == IF extPos /\ Aligned /\ base64Widths > Len(buf0)
                THEN base64Widths - Len(buf0) ELSE 0
        buf1 == IF id.Main # Zero THEN formatBits(id.Main)
                ELSE IF Aligned THEN <<>>
                ELSE <<0>>
        pad1 == IF id.Main # Zero
                THEN (IF Aligned /\ base64Widths > Len(buf1)
                      THEN base64Widths - Len(buf1) ELSE 0)
                ELSE IF Aligned THEN base64Widths
                ELSE 0
        sign == IF id.Signed /\ (mainPos \/ extPos) THEN <<base64Signed>> ELSE <<>>
    IN sign \o Paddings(pad0) \o buf0 \o Paddings(pad1) \o buf1

Encode(Aligned, id) ==
    LET extPos == SLess(Zero, id.Ext)
        mainPos == SLess(Zero, id.Main)
        buf0 == IF extPos THEN formatBits(id.Ext) ELSE <<>>
        pad0 == IF extPos /\ Aligned /\ base64Widths > Len(buf0)
                THEN base64Widths - Len(buf0) ELSE 0
        buf1 == IF id.Main # Zero THEN formatBits(id.Main)
                ELSE IF extPos \/ Aligned THEN <<>>
                ELSE <<0>>
        pad1 == IF id.Main # Zero
                THEN (IF (extPos \/ Aligned) /\ base64Widths > Len(buf1)
                      THEN base64Widths - Len(buf1) ELSE 0)
                ELSE IF extPos \/ Aligned THEN base64Widths
                ELSE 0
        sign == IF id.Signed /\ (mainPos \/ extPos) THEN <<base64Signed>> ELSE <<>>
    IN sign \o Paddings(pad0) \o buf0 \o Paddings(pad1) \o buf1

RECURSIVE parseLoop(_, _, _)
\* the loop of parseBits from character k on.  returned: the loop returned
\* (an invalid digit); otherwise n and err are those at the loop's exit
parseLoop(s, k, n) ==
    IF k > Len(s) THEN [n |-> n, err |-> "", returned |-> FALSE]
    ELSE IF s[k] \notin 0..63
         THEN [n |-> Zero, err |-> "invalid digit", returned |-> TRUE]
    ELSE IF ULeq(cutoff, n)
         THEN [n |-> maxVal, err |-> "number overflows", returned |-> FALSE]
    ELSE LET n64 == Mul(n, FromNat(64))
             n1 == Add(n64, FromNat(s[k]))
         IN IF ULess(n1, n64) \/ ULess(maxVal, n1)
            THEN [n |-> maxVal, err |-> "number overflows", returned |-> FALSE]
            ELSE parseLoop(s, k + 1, n1)

parseBits(s) ==
    IF s = <<>> THEN [v |-> Zero, err |-> "number cannot empty"]
    ELSE LET r == parseLoop(s, 1, Zero)
             co == Shl(One, 63)
         IN IF r.returned THEN [v |-> Zero, err |-> r.err]
            ELSE IF ULeq(co, r.n)
                 THEN [v |-> Sub(co, One), err |-> "value out of range"]
            ELSE [v |-> r.n, err |-> ""]

DecodeFail(reason) == [id |-> NilID, err |-> reason]

Decode(no) ==
    IF Len(no) < 1 THEN DecodeFail("number cannot empty")
    ELSE LET s == no[1] = base64Signed
             i == IF s THEN 1 ELSE 0
             w == Len(no) - i
         IN IF w < 1 THEN DecodeFail("invalid base64 number")
            ELSE LET m == IF w > base64Widths
                          THEN SubSeq(no, w + i - base64Widths + 1, Len(no))
                          ELSE IF s THEN SubSeq(no, 2, Len(no))
                          ELSE no
                     x == IF w > base64Widths
                          THEN SubSeq(no, i + 1, w + i - base64Widths)
                          ELSE <<>>
                     main == parseBits(m)
                     ext == parseBits(x)
                 IN IF main.err # "" THEN DecodeFail(main.err)
                    ELSE IF Len(x) > 0 /\ ext.err # "" THEN DecodeFail(ext.err)
                    ELSE [id |-> [Main |-> main.v,
                                  Ext |-> IF Len(x) > 0 THEN ext.v ELSE Zero,
                                  Signed |-> s],
                          err |-> ""]

-----------------------------------------------------------------------------
(* Options: constants, bit-segments and their constructors *)

nsPerMilliseconds == 1000000
usPerMilliseconds == 1000
msPerSecond == 1000
msPerMinute == 60 * msPerSecond
msPerHour == 60 * msPerMinute
msPerDay == 24 * msPerHour

uint63Max == Mask(63)

SegmentsLimit == 63
EpochReservedDays == 7
\* 1670774400000, as the set of its one bits
EpochMS == {10, 13, 17, 19, 21, 22, 23, 24, 32, 34, 39, 40}
bitsMaxWidth == 63

HostWidth == 6
NodeWidth == 4
TimestampWidth == 41
SequenceWidth == 12

\* DateTimeType
TimestampMilliseconds == 0
TimestampNanoseconds == 1
TimestampMicroseconds == 2
TimestampSeconds == 3
TimeNanosecond == 4
TimeMicrosecond == 5
TimeMillisecond == 6
TimeSecond == 7

\* DataSourceType
DataSourceTypes ==
    {"Static", "Args", "OS", "Settings", "SequenceID", "DateTime", "RandomID",
     "Provider"}

Bits(source, width, value, key, index, query) ==
    [Source |-> source, Width |-> width, Value |-> value, Key |-> key,
     Index |-> index, mask |-> Zero, query |-> query]

Host(width, fallback) == Bits("Settings", width, fallback, "Host", 0, "")
Node(width, fallback) == Bits("Settings", width, fallback, "Node", 0, "")
Timestamp(width, t) == Bits("DateTime", width, Zero, "", t, "")
Random(width) == Bits("RandomID", width, Zero, "", 0, "")
Sequence(width) == Bits("SequenceID", width, Zero, "", 0, "")
Fixed(width, value) == Bits("Static", width, value, "", 0, "")
Env(width, name, fallback) == Bits("OS", width, fallback, name, 0, "")
Arg(width, index, fallback) == Bits("Args", width, fallback, "", index, "")
Option(width, key, fallback) == Bits("Settings", width, fallback, key, 0, "")
Data(width, source, fallback, query) ==
    Bits("Provider", width, fallback, source, 0, query)

\* an Options value; settings is the map from its keys to their values
Options(reservedDays, epochMS, signed, segments, settings) ==
    [ReservedDays |-> reservedDays, EpochMS |-> epochMS, Signed |-> signed,
     segments |-> segments, settings |-> settings]

NoSettings == [k \in {} |-> Zero]

\* Config(host, node, segments...)
Config(host, node, segments) ==
    Options(Zero, Zero, FALSE, segments,
            [k \in {"Host", "Node"} |-> IF k = "Host" THEN host ELSE node])

\* an OptionsError, compared as SameAs compares: by Name and reason
invalidOption(name, reason) == [Name |-> name, Err |-> reason]
NoError == [Name |-> "", Err |-> ""]

-----------------------------------------------------------------------------
(* Make: the validator *)

\* the first rule of checklist that fires, at wall-clock millisecond nowMS
checklist(opt, nowMS) ==
    LET min0 == FromNat(EpochReservedDays * msPerDay)
        min == IF SLess(min0, opt.ReservedDays) THEN opt.ReservedDays ELSE min0
    IN IF SLeq(opt.ReservedDays, Zero) /\ SLess(EpochMS, Zero)
       THEN invalidOption("EpochMS", "errorEpochTooSmall")
       ELSE IF SLess(nowMS, opt.EpochMS)
       THEN invalidOption("EpochMS", "errorEpochTooLarge")
       ELSE IF Len(opt.segments) <= 0
       THEN invalidOption("Segments", "errorSegmentsEmpty")
       ELSE IF Len(opt.segments) > SegmentsLimit
       THEN invalidOption("Segments", "errorSegmentsTooMany")
       ELSE IF SLess(Sub(nowMS, opt.EpochMS), min)
       THEN invalidOption("EpochMS", "errorTooPoor")
       ELSE NoError

\* a variant of checkSegment for which a DateTime segment of any kind, a
\* calendar field included, meets the requirement
checkSegmentAnyDateTime(segment, required) ==
    [v |-> IF segment.Source \in {"SequenceID", "RandomID", "DateTime"}
           THEN Zero ELSE segment.Value,
     required |-> required \ {segment.Source},
     err |-> IF segment.Source \in DataSourceTypes THEN NoError
             ELSE invalidOption("Segments", "errorInvalidType")]

\* checkSegment: the value to compare with the mask, the sources seen
checkSegment(segment, required) ==
    CASE segment.Source \in {"Static", "Args", "OS", "Settings", "Provider"} ->
           [v |-> segment.Value, required |-> required, err |-> NoError]
      [] segment.Source = "SequenceID" ->
           [v |-> Zero, required |-> required \ {"SequenceID"}, err |-> NoError]
      [] segment.Source = "RandomID" ->
           [v |-> Zero, required |-> required, err |-> NoError]
      [] segment.Source = "DateTime" ->
           [v |-> Zero,
            required |-> IF segment.Index \in {TimestampNanoseconds,
                                               TimestampMicroseconds,
                                               TimestampMilliseconds,
                                               TimestampSeconds}
                         THEN required \ {"DateTime"} ELSE required,
            err |-> NoError]
      [] OTHER ->
           [v |-> segment.Value, required |-> required,
            err |-> invalidOption("Segments", "errorInvalidType")]

\* a variant of sequenceWidthOf that keeps the width of the last SequenceID
\* segment, not of the widest
sequenceWidthOfLast(w, sequenceWidth) == w

\* the width that Make takes as the sequence width after a SequenceID segment
sequenceWidthOf(w, sequenceWidth) == IF w > sequenceWidth THEN w ELSE sequenceWidth

\* a variant of exceedsMask that also refuses a value equal to the mask
exceedsMaskOrEqual(v, mask) == SLeq(mask, v)

\* Make: v > mask
exceedsMask(v, mask) == SLess(mask, v)

RECURSIVE segmentLoop(_, _, _, _, _)
\* the loop of Make over opt.segments from index on (t: the widths so far);
\* segments: the slice as the loop leaves it, masks set up to where it stopped
segmentLoop(segments, index, t, required, sequenceWidth) ==
    IF index > Len(segments)
    THEN [segments |-> segments, required |-> required,
          sequenceWidth |-> sequenceWidth, err |-> NoError]
    ELSE LET segment == segments[index]
             w == segment.Width
             mask == Mask(w)
             masked == [segments EXCEPT ![index].mask = mask]
             c == checkSegment(segment, required)
             fail(segs, e) == [segments |-> segs, required |-> required,
                               sequenceWidth |-> sequenceWidth, err |-> e]
         IN IF w < 1 \/ w > bitsMaxWidth
            THEN fail(segments, invalidOption("Segments", "errorWidthInvalid"))
            ELSE IF (t + w) % 256 > bitsMaxWidth * 2
            THEN fail(segments, invalidOption("Segments", "errorWidthTooLarge"))
            ELSE IF c.err # NoError THEN fail(masked, c.err)
            ELSE IF exceedsMask(c.v, mask)
            THEN fail(masked, invalidOption("Segments", "errorInvalidValue"))
            ELSE segmentLoop(masked, index + 1, (t + w) % 256, c.required,
                             IF segment.Source = "SequenceID"
                             THEN sequenceWidthOf(w, sequenceWidth)
                             ELSE sequenceWidth)

NoBuilder ==
    [ready |-> FALSE, options |-> Options(Zero, Zero, FALSE, <<>>, NoSettings),
     sequenceMask |-> Zero]

\* Make(opt) at wall-clock millisecond nowMS: the Builder, the error, and the
\* caller's segments afterwards (opt is a copy, its segments slice is shared)
Make(opt, nowMS) ==
    LET rule == checklist(opt, nowMS)
        epoch == IF SLeq(opt.EpochMS, Zero) /\ SLess(Zero, EpochMS)
                 THEN EpochMS ELSE opt.EpochMS
        walk == segmentLoop(opt.segments, 1, 0, {"DateTime", "SequenceID"}, 0)
        reject(e) == [m |-> NoBuilder, err |-> e, segments |-> walk.segments]
    IN IF rule # NoError
       THEN [m |-> NoBuilder, err |-> rule, segments |-> opt.segments]
       ELSE IF walk.err # NoError THEN reject(walk.err)
       ELSE IF walk.required # {}
       THEN reject(invalidOption("Segments", "errorSegmentMiss"))
       ELSE IF walk.sequenceWidth < 8
       THEN reject(invalidOption("Sequence.Width", "errorTooSlow"))
       ELSE [m |-> [ready |-> TRUE,
                    options |-> [opt EXCEPT !.EpochMS = epoch,
                                            !.segments = walk.segments],
                    sequenceMask |-> Mask(walk.sequenceWidth)],
             err |-> NoError,
             segments |-> walk.segments]

\* What the Builder of Make(opt) shares with the caller's Options: Make takes
\* opt by value and keeps a pointer to that copy, so the fields ReservedDays,
\* EpochMS and Signed are the Builder's own, while the copy's segments slice
\* points to the caller's array and its settings map, unless nil, is the
\* caller's map.  (A nil map is the map without keys: no code path makes an
\* empty map that is not nil.)
SharedByMake(opt) ==
    {"segments"} \cup (IF DOMAIN opt.settings = {} THEN {} ELSE {"settings"})

\* Builder.ResetEpoch(epoch) at wall-clock millisecond nowMS: the error and
\* the Builder's epoch afterwards
ResetEpoch(options, epoch, nowMS) ==
    LET min0 == FromNat(EpochReservedDays * msPerDay)
        min == IF SLess(min0, options.ReservedDays)
               THEN Mul(options.ReservedDays, FromNat(msPerDay)) ELSE min0
    IN IF SLess(epoch, Zero)
       THEN [err |-> invalidOption("EpochMS", "errorEpochTooSmall"),
             EpochMS |-> options.EpochMS]
       ELSE IF SLess(nowMS, epoch)
       THEN [err |-> invalidOption("EpochMS", "errorEpochTooLarge"),
             EpochMS |-> options.EpochMS]
       ELSE IF SLess(Sub(nowMS, epoch), min)
       THEN [err |-> invalidOption("EpochMS", "errorTooPoor"),
             EpochMS |-> options.EpochMS]
       ELSE [err |-> NoError, EpochMS |-> epoch]

-----------------------------------------------------------------------------
(* The environment of a Builder: wall clock, process environment, providers *)

\* The wall clock reads whole milliseconds StartMS + c for an offset c; StartMS
\* is 2026-01-01T00:00:00.999Z, so that offsets 0 and 1 lie in different seconds.
\* (1767225600999, as the set of its one bits)
StartMS ==
    {0, 1, 2, 5, 6, 7, 8, 9, 11, 13, 15, 17, 19, 20, 22, 23, 25, 26, 28, 29, 30, 32, 33, 35, 36, 39, 40}

\* time.Time of clock offset c: UnixMilli, UnixMicro, UnixNano, Unix, Second
UnixMilli(c) == Add(StartMS, FromNat(c))
UnixMicro(c) == Mul(UnixMilli(c), FromNat(usPerMilliseconds))
UnixNano(c) == Mul(UnixMilli(c), FromNat(nsPerMilliseconds))
Unix(c) == Div(UnixMilli(c), msPerSecond)
Second(c) == FromNat(Mod(Unix(c), 60))

\* os.LookupEnv(key) followed by strconv.ParseInt: found, parsed, the value
LookupEnv(key) ==
    CASE key = "SERVER_HOST_ID" -> [found |-> TRUE, parsed |-> TRUE, w |-> FromNat(3)]
      [] key = "ENV_TEST" -> [found |-> TRUE, parsed |-> FALSE, w |-> Zero]
      [] OTHER -> [found |-> FALSE, parsed |-> FALSE, w |-> Zero]

\* dataSources[name].Read(query...), with the provider the tests register
data(name, query) ==
    IF name = "my_data_source"
    THEN CASE query = "hit" -> [v |-> FromNat(1), ok |-> TRUE]
           [] query = "other" -> [v |-> FromNat(9), ok |-> TRUE]
           [] OTHER -> [v |-> Zero, ok |-> FALSE]
    ELSE [v |-> Zero, ok |-> FALSE]

-----------------------------------------------------------------------------
(* Next: value resolution and packing *)

datetime(t, tr, epochMS) ==
    LET epoch == IF SLess(epochMS, Zero) THEN Zero ELSE epochMS
    IN CASE t = TimestampNanoseconds ->
              Sub(UnixNano(tr), Mul(epoch, FromNat(nsPerMilliseconds)))
         [] t = TimestampMicroseconds ->
              Sub(UnixMicro(tr), Mul(epoch, FromNat(usPerMilliseconds)))
         [] t = TimestampSeconds -> Sub(Unix(tr), Div(epoch, msPerSecond))
         [] t = TimeMillisecond -> FromNat(Mod(UnixMilli(tr), msPerSecond))
         [] t = TimeSecond -> Second(tr)
         [] OTHER -> Sub(UnixMilli(tr), epoch)

\* Rand(w): the values it may return (the two ends of [0, mask]; 0 on failure)
Rand(w) == IF w < 1 \/ w > 63 THEN {Zero} ELSE {Zero, Mask(w)}

\* a variant of val that reads the argument at the segment's Index, not the
\* next one
valArgsByIndex(options, segment, tr, seq, argv, a, f, rnd) ==
    CASE segment.Source = "Args" ->
           IF segment.Index < Len(argv) THEN argv[segment.Index + 1] ELSE f
      [] segment.Source = "OS" ->
           IF segment.Key # "" /\ LookupEnv(segment.Key).found
              /\ LookupEnv(segment.Key).parsed
           THEN LookupEnv(segment.Key).w ELSE f
      [] segment.Source = "Settings" ->
           IF segment.Key # "" /\ segment.Key \in DOMAIN options.settings
           THEN options.settings[segment.Key] ELSE f
      [] segment.Source = "SequenceID" -> seq
      [] segment.Source = "DateTime" ->
           datetime(segment.Index, tr, options.EpochMS)
      [] segment.Source = "RandomID" -> rnd
      [] segment.Source = "Provider" ->
           IF data(segment.Key, segment.query).ok
           THEN data(segment.Key, segment.query).v ELSE f
      [] OTHER -> f

\* Builder.val: the raw value of a segment (rnd: what Rand returns for it)
val(options, segment, tr, seq, argv, a, f, rnd) ==
    CASE segment.Source = "Args" -> IF a < Len(argv) THEN argv[a + 1] ELSE f
      [] segment.Source = "OS" ->
           IF segment.Key # "" /\ LookupEnv(segment.Key).found
              /\ LookupEnv(segment.Key).parsed
           THEN LookupEnv(segment.Key).w ELSE f
      [] segment.Source = "Settings" ->
           IF segment.Key # "" /\ segment.Key \in DOMAIN options.settings
           THEN options.settings[segment.Key] ELSE f
      [] segment.Source = "SequenceID" -> seq
      [] segment.Source = "DateTime" ->
           datetime(segment.Index, tr, options.EpochMS)
      [] segment.Source = "RandomID" -> rnd
      [] segment.Source = "Provider" ->
           IF data(segment.Key, segment.query).ok
           THEN data(segment.Key, segment.query).v ELSE f
      [] OTHER -> f

\* the value of a segment as Next packs it: negative -> 0, then & mask
normalise(f, mask) ==
    LET f0 == IF SLess(f, Zero) THEN Zero ELSE f
    IN IF SLess(mask, f0) THEN And(f0, mask) ELSE f0

\* one turn of the loop of Next: segment's raw value f into (main, ext)
pack(acc, segment, f0) ==
    LET f == normalise(f0, segment.mask)
        v2 == f
        shifted == IF acc.shift > 0 THEN Shl(f, acc.shift) ELSE f
        v == IF acc.shift > 0 /\ ULeq(uint63Max, shifted)
             THEN And(shifted, uint63Max) ELSE shifted
        sw == (acc.shift + segment.Width) % 256
    IN IF ~acc.overflow
       THEN [main |-> Or(acc.main, v),
             shift |-> IF sw > bitsMaxWidth THEN sw - bitsMaxWidth
                       ELSE sw,
             ext |-> IF sw > bitsMaxWidth
                     THEN Shr(v2, segment.Width - (sw - bitsMaxWidth))
                     ELSE acc.ext,
             overflow |-> sw >= bitsMaxWidth,
             a |-> acc.a, vs |-> Append(acc.vs, f0)]
       ELSE [main |-> acc.main,
             shift |-> sw,
             ext |-> Or(acc.ext, v),
             overflow |-> TRUE,
             a |-> acc.a, vs |-> Append(acc.vs, f0)]

RECURSIVE segmentsLoop(_, _, _, _, _, _, _)
\* the loop of Next over b.options.segments from index i on
segmentsLoop(options, i, acc, tr, seq, argv, rnd) ==
    IF i > Len(options.segments) THEN acc
    ELSE LET segment == options.segments[i]
             f == val(options, segment, tr, seq, argv, acc.a, segment.Value,
                      rnd[i])
             next == pack(acc, segment, f)
         IN segmentsLoop(options,
                         i + 1,
                         [next EXCEPT !.a = IF segment.Source = "Args"
                                            THEN acc.a + 1 ELSE acc.a],
                         tr, seq, argv, rnd)

\* what Next returns after tick: the ID, and the raw values (DebugInfo.Bits)
NextID(options, tr, seq, argv, rnd) ==
    LET acc == segmentsLoop(options, 1,
                            [main |-> Zero, ext |-> Zero, shift |-> 0,
                             overflow |-> FALSE, a |-> 0, vs |-> <<>>],
                            tr, seq, argv, rnd)
    IN [id |-> [Main |-> acc.main, Ext |-> acc.ext, Signed |-> options.Signed],
        Bits |-> acc.vs]

-----------------------------------------------------------------------------
(* State *)

VARIABLES
    opt,        \* the Options the caller passes to Make
    err,        \* the error Make or ResetEpoch returned last
    b,          \* the Builder: ready, options, sequenceMask, sequence, now
    mutex,      \* the goroutines holding the Builder's mutex
    pc,         \* where each goroutine is in Next
    local,      \* the locals of each goroutine's Next: n, sequence
    clock,      \* the wall clock, a millisecond offset from StartMS
    calls,      \* the number of Next calls that have taken the mutex
    log,        \* the IDs returned so far, in order, with their tick
    served,     \* the goroutines a Next call has returned an ID to
    shared,     \* the parts of opt whose storage b.options uses as well
    id,         \* codec: the ID handed to Encode and Bytes
    aligned,    \* codec: Base64.Aligned
    text,       \* codec: the string Encode returned
    decoded,    \* codec: what Decode returned for text
    bytes,      \* codec: what Bytes returned
    simple,     \* Simple: the server, the closure's state b, the values returned
    predefined, \* the registry of presets: the Options each scene points to
    preset      \* the registry entry opt was copied from, and what they share

vars == <<opt, err, b, mutex, pc, local, clock, calls, log, served, shared, id,
          aligned, text, decoded, bytes, simple, predefined, preset>>
builderVars == <<opt, err, b, mutex, pc, local, clock, calls, log, served, shared>>
codecVars == <<id, aligned, text, decoded, bytes>>
simpleVars == <<simple>>
registryVars == <<predefined, preset>>

\* bounds of the model
MaxClock == 2
MaxCalls == 3

\* the goroutines calling Next
Procs == {1, 2}

-----------------------------------------------------------------------------
(* The layouts the Builder is made from *)

\* the layout TestSeqIDExt defines: the "sequence" preset over settings
SeqIdLayout ==
    Options(Zero, Zero, FALSE,
            <<Sequence(12), Timestamp(41, TimestampMilliseconds),
              Node(NodeWidth, FromNat(4)), Host(HostWidth, FromNat(8))>>,
            [k \in {"Host", "Node"} |-> IF k = "Host" THEN FromNat(8) ELSE FromNat(4)])

\* a variant of Snowflake that declares Host before Node
SnowflakeHostFirst(host, node) ==
    Options(Zero, EpochMS, FALSE,
            <<Sequence(SequenceWidth), Host(HostWidth, host),
              Node(NodeWidth, node),
              Timestamp(TimestampWidth, TimestampMilliseconds)>>,
            NoSettings)

\* Snowflake(host, node)
Snowflake(host, node) ==
    Options(Zero, EpochMS, FALSE,
            <<Sequence(SequenceWidth), Node(NodeWidth, node),
              Host(HostWidth, host),
              Timestamp(TimestampWidth, TimestampMilliseconds)>>,
            NoSettings)

\* Options.Add(b)
OptionsAdd(o, seg) ==
    [o EXCEPT !.segments = Append(o.segments, [seg EXCEPT !.mask = Mask(seg.Width)])]

\* Options.Set(k, v)
OptionsSet(o, k, v) ==
    [o EXCEPT !.settings = [x \in (DOMAIN o.settings) \cup {k} |->
                               IF x = k THEN v ELSE o.settings[x]]]

\* Options.NewEpoch(v)
OptionsNewEpoch(o, v) == [o EXCEPT !.EpochMS = v]

\* Options.Patch(offset, key, index, fallback)
OptionsPatch(o, offset, key, index, fallback) ==
    IF offset < Len(o.segments)
    THEN [o EXCEPT !.segments[offset + 1] =
                      [@ EXCEPT !.Key = key, !.Index = index, !.Value = fallback]]
    ELSE o

\* the "openid" preset
OpenID ==
    Options(Zero, Zero, FALSE,
            <<Timestamp(31, TimestampSeconds), Env(4, "SERVER_NODE_ID", Zero),
              Sequence(14), Env(6, "SERVER_HOST_ID", Zero),
              Timestamp(10, TimeMillisecond), Env(16, "SERVER_DOMAIN_ID", Zero),
              Random(45)>>,
            NoSettings)

\* the "test" preset with a narrow sequence and without its random segment:
\* one segment of every other source
TestLayout ==
    Options(Zero, Zero, TRUE,
            <<Timestamp(31, TimestampSeconds), Fixed(4, FromNat(9)),
              Env(10, "SERVER_NODE_ID", Zero), Sequence(8),
              Data(5, "my_data_source", FromNat(3), "hit"),
              Env(10, "ENV_TEST", FromNat(2)),
              Data(5, "default", FromNat(9), "not_found"),
              Arg(8, 0, FromNat(99)), Option(10, "test", Zero),
              Timestamp(10, TimeMillisecond)>>,
            [k \in {"test"} |-> FromNat(99)])

\* a layout with two Args segments, declared against the order of their Index
ArgsLayout ==
    Options(Zero, Zero, FALSE,
            <<Sequence(12), Timestamp(41, TimestampMilliseconds),
              Arg(4, 1, FromNat(7)), Arg(4, 0, FromNat(9))>>,
            NoSettings)

Layouts ==
    {SeqIdLayout, Snowflake(FromNat(3), FromNat(7)),
     OptionsAdd(Snowflake(FromNat(10), FromNat(8)), Random(63)),
     OptionsAdd(Snowflake(FromNat(10), FromNat(8)), Fixed(4, FromNat(9))),
     OpenID, TestLayout}

\* the argv a caller passes to Next: none, and one with 5 and one with 5, 6
\* where the layout has Args segments to take them
ArgvChoices(segments) ==
    LET n == Cardinality({i \in 1..Len(segments) : segments[i].Source = "Args"})
    IN {SubSeq(<<FromNat(5), FromNat(6)>>, 1, m) : m \in 0..(IF n > 2 THEN 2 ELSE n)}

\* what Rand returns for each RandomID segment of one call
RandChoices(segments) ==
    LET R == {i \in 1..Len(segments) : segments[i].Source = "RandomID"}
        S == UNION {Rand(segments[i].Width) : i \in R}
    IN {[i \in 1..Len(segments) |-> IF i \in R /\ SLeq(h[i], Mask(segments[i].Width))
                                    THEN h[i] ELSE Zero] : h \in [R -> S]}

-----------------------------------------------------------------------------
(* The Builder at run time *)

\* the Builder Make returns for o at clock offset c
NewBuilder(o, c) ==
    LET r == Make(o, UnixMilli(c))
    IN [ready |-> r.m.ready, options |-> r.m.options,
        sequenceMask |-> r.m.sequenceMask, sequence |-> Zero, now |-> <<>>]

\* the same Builder after sequenceMask calls of Next within millisecond c
UsedBuilder(o, c) ==
    LET m == NewBuilder(o, c)
    IN [m EXCEPT !.sequence = Sub(m.sequenceMask, One), !.now = <<c>>]

NoLocal == [n |-> 0, sequence |-> Zero, ticket |-> 0]

\* what decoded holds before Decode has been called
NotDecoded == DecodeFail("not decoded")

CodecIdle ==
    /\ id = NilID
    /\ aligned = FALSE
    /\ text = <<>>
    /\ decoded = NotDecoded
    /\ bytes = <<>>

\* Simple has not been called: no closure, the zero value of its struct b
NoSimple ==
    [pc |-> "new", server |-> Zero, err |-> "", start |-> Zero, now |-> Zero,
     sequence |-> Zero, n |-> Zero, out |-> <<>>]

SimpleIdle == simple = NoSimple

\* the registry before any caller has a copy: the "sequence" preset, and the
\* scene TestSeqIDExt registers with Define (scenes are kept in lower case)
Registered ==
    [scene \in {"sequence", "testseqidext"} |->
        IF scene = "sequence"
        THEN Options(Zero, Zero, FALSE,
                     <<Sequence(12), Timestamp(41, TimestampMilliseconds),
                       Env(NodeWidth, "SERVER_NODE_ID", Zero),
                       Env(HostWidth, "SERVER_HOST_ID", Zero)>>,
                     NoSettings)
        ELSE SeqIdLayout]

\* no caller holds a copy of a registry entry
RegistryIdle ==
    /\ predefined = Registered
    /\ preset = [scene |-> "", parts |-> {}, builder |-> "", made |-> {}]

\* Make has returned a Builder for one of the layouts; the Builder is new, or
\* has been used up to the last sequence value of the current millisecond
InitOf(layouts) ==
    /\ clock = 0
    /\ \E o \in layouts :
         LET r == Make(o, UnixMilli(clock))
         IN /\ opt = [o EXCEPT !.segments = r.segments]
            /\ err = r.err
            /\ b \in {NewBuilder(o, clock), UsedBuilder(o, clock)}
            /\ shared = SharedByMake(o)
    /\ err = NoError
    /\ mutex = {}
    /\ pc = [p \in Procs |-> "idle"]
    /\ local = [p \in Procs |-> NoLocal]
    /\ calls = 0
    /\ log = <<>>
    /\ served = {}
    /\ CodecIdle
    /\ SimpleIdle

Init == InitOf(Layouts) /\ RegistryIdle

\* a variant of MutexFree for a Next that takes no lock
MutexFreeAlways == TRUE

\* b.Lock() can return
MutexFree == mutex = {}

\* Next: the ready test and b.Lock()
Lock(p) ==
    /\ pc[p] = "idle"
    /\ b.ready
    /\ calls < MaxCalls
    /\ MutexFree
    /\ mutex' = mutex \cup {p}
    /\ calls' = calls + 1
    /\ pc' = [pc EXCEPT ![p] = "tick"]
    /\ local' = [local EXCEPT ![p] = [NoLocal EXCEPT !.ticket = calls + 1]]
    /\ UNCHANGED <<opt, err, b, clock, log, served, shared>>
    /\ UNCHANGED codecVars
    /\ UNCHANGED simpleVars
    /\ UNCHANGED registryVars

\* b.now.UnixMilli(), 0 while b.now is nil
LastMilli == IF b.now = <<>> THEN Zero ELSE UnixMilli(b.now[1])

\* a variant of tickSequence that does not mask the incremented sequence
tickSequenceUnmasked(ms, bs) ==
    IF ms = bs THEN Add(b.sequence, One) ELSE Zero

\* tick: the sequence for a clock reading ms when the last one was bs
tickSequence(ms, bs) ==
    IF ms = bs THEN And(Add(b.sequence, One), b.sequenceMask) ELSE Zero

\* tick up to its loop: read the clock, choose the sequence, and either enter
\* the loop (the sequence wrapped) or store the reading and the sequence
TickRead(p) ==
    /\ pc[p] = "tick"
    /\ LET n == clock
           ms == UnixMilli(n)
           bs == LastMilli
           sequence == tickSequence(ms, bs)
       IN IF ms = bs /\ sequence = Zero
          THEN /\ pc' = [pc EXCEPT ![p] = "spin"]
               /\ local' = [local EXCEPT ![p].n = n, ![p].sequence = sequence]
               /\ UNCHANGED b
          ELSE /\ pc' = [pc EXCEPT ![p] = "pack"]
               /\ local' = [local EXCEPT ![p].n = n, ![p].sequence = sequence]
               /\ b' = [b EXCEPT !.now = <<n>>, !.sequence = sequence]
    /\ UNCHANGED <<opt, err, mutex, clock, calls, log, served, shared>>
    /\ UNCHANGED codecVars
    /\ UNCHANGED simpleVars
    /\ UNCHANGED registryVars

\* a variant of TickSpin whose loop goes on while ms <= bs + 1
TickSpinLate(p) ==
    /\ pc[p] = "spin"
    /\ LET n == clock
           ms == UnixMilli(n)
       IN IF SLeq(ms, Add(LastMilli, One))
          THEN /\ local' = [local EXCEPT ![p].n = n]
               /\ UNCHANGED <<pc, b>>
          ELSE /\ pc' = [pc EXCEPT ![p] = "pack"]
               /\ local' = [local EXCEPT ![p].n = n]
               /\ b' = [b EXCEPT !.now = <<n>>, !.sequence = local[p].sequence]
    /\ UNCHANGED <<opt, err, mutex, clock, calls, log, served, shared>>
    /\ UNCHANGED codecVars
    /\ UNCHANGED simpleVars
    /\ UNCHANGED registryVars

\* one turn of tick's loop: read the clock again; leave the loop, and store
\* the reading and the sequence, once it reads later than the last one
TickSpin(p) ==
    /\ pc[p] = "spin"
    /\ LET n == clock
           ms == UnixMilli(n)
       IN IF SLeq(ms, LastMilli)
          THEN /\ local' = [local EXCEPT ![p].n = n]
               /\ UNCHANGED <<pc, b>>
          ELSE /\ pc' = [pc EXCEPT ![p] = "pack"]
               /\ local' = [local EXCEPT ![p].n = n]
               /\ b' = [b EXCEPT !.now = <<n>>, !.sequence = local[p].sequence]
    /\ UNCHANGED <<opt, err, mutex, clock, calls, log, served, shared>>
    /\ UNCHANGED codecVars
    /\ UNCHANGED simpleVars
    /\ UNCHANGED registryVars

\* a variant of Pack that reads the clock again for the DateTime segments
PackAtClock(p) ==
    /\ pc[p] = "pack"
    /\ \E argv \in ArgvChoices(b.options.segments),
          rnd \in RandChoices(b.options.segments) :
         LET tr == clock
             seq == local[p].sequence
             r == NextID(b.options, tr, seq, argv, rnd)
         IN log' = Append(log, [id |-> r.id, Bits |-> r.Bits, ms |-> tr,
                                sequence |-> seq, argv |-> argv,
                                ticket |-> local[p].ticket])
    /\ served' = served \cup {p}
    /\ mutex' = mutex \ {p}
    /\ pc' = [pc EXCEPT ![p] = "idle"]
    /\ local' = [local EXCEPT ![p] = NoLocal]
    /\ UNCHANGED <<opt, err, b, clock, calls, shared>>
    /\ UNCHANGED codecVars
    /\ UNCHANGED simpleVars
    /\ UNCHANGED registryVars

\* the rest of Next: resolve and pack every segment, return the ID, unlock
Pack(p) ==
    /\ pc[p] = "pack"
    /\ \E argv \in ArgvChoices(b.options.segments),
          rnd \in RandChoices(b.options.segments) :
         LET tr == b.now[1]
             seq == local[p].sequence
             r == NextID(b.options, tr, seq, argv, rnd)
         IN log' = Append(log, [id |-> r.id, Bits |-> r.Bits, ms |-> tr,
                                sequence |-> seq, argv |-> argv,
                                ticket |-> local[p].ticket])
    /\ served' = served \cup {p}
    /\ mutex' = mutex \ {p}
    /\ pc' = [pc EXCEPT ![p] = "idle"]
    /\ local' = [local EXCEPT ![p] = NoLocal]
    /\ UNCHANGED <<opt, err, b, clock, calls, shared>>
    /\ UNCHANGED codecVars
    /\ UNCHANGED simpleVars
    /\ UNCHANGED registryVars

\* the wall clock moves on by a millisecond
ClockForward ==
    /\ clock < MaxClock
    /\ clock' = clock + 1
    /\ UNCHANGED <<opt, err, b, mutex, pc, local, calls, log, served, shared>>
    /\ UNCHANGED codecVars
    /\ UNCHANGED simpleVars
    /\ UNCHANGED registryVars

\* the wall clock is set back by a millisecond
ClockBackward ==
    /\ clock > 0
    /\ clock' = clock - 1
    /\ UNCHANGED <<opt, err, b, mutex, pc, local, calls, log, served, shared>>
    /\ UNCHANGED codecVars
    /\ UNCHANGED simpleVars
    /\ UNCHANGED registryVars

NextCall == \E p \in Procs : Lock(p) \/ TickRead(p) \/ TickSpin(p) \/ Pack(p)

Next == NextCall \/ ClockForward \/ ClockBackward

Spec == Init /\ [][Next]_vars

\* the Builder under a wall clock that never goes back
NextMono == NextCall \/ ClockForward

SpecMono == Init /\ [][NextMono]_vars

-----------------------------------------------------------------------------
(* The Builder under a wall clock that keeps moving on, with every goroutine
   that holds the mutex scheduled again and again *)

LiveLayouts == {SeqIdLayout, Snowflake(FromNat(3), FromNat(7))}

InitLive == InitOf(LiveLayouts) /\ RegistryIdle

\* Next is called while a later millisecond is still to come
LockEarly(p) ==
    /\ clock < MaxClock
    /\ Lock(p)

NextLive ==
    \/ \E p \in Procs : LockEarly(p) \/ TickRead(p) \/ TickSpin(p) \/ Pack(p)
    \/ ClockForward

\* a step of Next by the goroutine that holds the mutex: it gets past the
\* clock reading of tick, leaves tick's loop when the clock is later than
\* b.now, or returns
Proceeds(p) ==
    \/ /\ pc[p] = "tick"
       /\ pc' \in {[pc EXCEPT ![p] = "spin"], [pc EXCEPT ![p] = "pack"]}
    \/ /\ pc[p] = "spin"
       /\ b.now # <<>>
       /\ clock > b.now[1]
       /\ pc' = [pc EXCEPT ![p] = "pack"]
    \/ /\ pc[p] = "pack"
       /\ pc' = [pc EXCEPT ![p] = "idle"]

\* the goroutine in Next runs on: it holds the mutex and waits for nothing but
\* the clock, and the clock reaches every later millisecond
FairLive ==
    /\ WF_clock(ClockForward)
    /\ \A p \in Procs : WF_pc(Proceeds(p))

SpecLive == InitLive /\ [][NextLive]_vars /\ FairLive

-----------------------------------------------------------------------------
(* Builders whose only timestamp counts seconds, with the millisecond or the
   second of the minute as a calendar field, under any wall clock *)

\* the layout of TestDateTime for the timestamp in seconds, without its
\* random segment
DateTimeLayout(a) ==
    Options(Zero, Zero, FALSE,
            <<Timestamp(31, TimestampSeconds), Sequence(12), Timestamp(30, a)>>,
            NoSettings)

InitDateTime ==
    /\ InitOf({DateTimeLayout(TimeMillisecond), DateTimeLayout(TimeSecond)})
    /\ RegistryIdle

SpecDateTime == InitDateTime /\ [][Next]_vars

-----------------------------------------------------------------------------
(* The Builder of Snowflake(3, 7), under any wall clock *)

InitSnowflake == InitOf({Snowflake(FromNat(3), FromNat(7))}) /\ RegistryIdle

SpecSnowflake == InitSnowflake /\ [][Next]_vars

-----------------------------------------------------------------------------
(* Value resolution: Builders whose segments take arguments, environment    *)
(* variables, settings and providers, under a wall clock that never goes back *)

ValLayouts == {TestLayout, ArgsLayout}

InitVal == InitOf(ValLayouts) /\ RegistryIdle

SpecVal == InitVal /\ [][NextMono]_vars

-----------------------------------------------------------------------------
(* The caller goes on using its Options after Make has returned the Builder *)

\* the layouts of the callers that change their Options afterwards
OptionsLayouts == {SeqIdLayout, Snowflake(FromNat(3), FromNat(7))}

InitOptions == InitOf(OptionsLayouts) /\ RegistryIdle

\* opt.Set("Node", 5): the caller's map gets the key; it is the Builder's map
\* too unless the caller's was nil when Make copied the Options
SetCall ==
    /\ b.ready
    /\ LET o == OptionsSet(opt, "Node", FromNat(5))
       IN /\ o # opt
          /\ opt' = o
          /\ b' = IF "settings" \in shared
                  THEN [b EXCEPT !.options = OptionsSet(@, "Node", FromNat(5))]
                  ELSE b
          /\ predefined' = IF "settings" \in preset.parts
                           THEN [predefined EXCEPT ![preset.scene] =
                                    OptionsSet(@, "Node", FromNat(5))]
                           ELSE predefined
    /\ UNCHANGED <<err, mutex, pc, local, clock, calls, log, served, shared>>
    /\ UNCHANGED codecVars
    /\ UNCHANGED simpleVars
    /\ UNCHANGED preset

\* opt.NewEpoch(EpochMS + 1 day): a field of the caller's own struct
NewEpochCall ==
    /\ b.ready
    /\ LET o == OptionsNewEpoch(opt, Add(EpochMS, FromNat(msPerDay)))
       IN o # opt /\ opt' = o
    /\ UNCHANGED <<err, b, mutex, pc, local, clock, calls, log, served, shared>>
    /\ UNCHANGED codecVars
    /\ UNCHANGED simpleVars
    /\ UNCHANGED registryVars

\* opt.Add(Fixed(4, 9)): append either writes behind the Builder's slice in
\* the array they share, or, the array being full, moves the caller's
\* segments to a new array; the array of a registry entry is a slice literal
\* and full
AddCall ==
    /\ b.ready
    /\ Len(opt.segments) = Len(b.options.segments)
    /\ opt' = OptionsAdd(opt, Fixed(4, FromNat(9)))
    /\ shared' \in {shared, shared \ {"segments"}}
    /\ "segments" \in preset.parts => "segments" \notin shared'
    /\ preset' = [preset EXCEPT !.parts = @ \ {"segments"}]
    /\ UNCHANGED <<err, b, mutex, pc, local, clock, calls, log, served>>
    /\ UNCHANGED codecVars
    /\ UNCHANGED simpleVars
    /\ UNCHANGED predefined

\* opt.Patch(1, "Node", 0, 5): the segment is written in place, in the array
\* the Builder's slice points to as long as the two share it
PatchCall ==
    /\ b.ready
    /\ LET o == OptionsPatch(opt, 1, "Node", 0, FromNat(5))
       IN /\ o # opt
          /\ opt' = o
          /\ b' = IF "segments" \in shared
                  THEN [b EXCEPT !.options = OptionsPatch(@, 1, "Node", 0, FromNat(5))]
                  ELSE b
          /\ predefined' = IF "segments" \in preset.parts
                           THEN [predefined EXCEPT ![preset.scene] =
                                    OptionsPatch(@, 1, "Node", 0, FromNat(5))]
                           ELSE predefined
    /\ UNCHANGED <<err, mutex, pc, local, clock, calls, log, served, shared>>
    /\ UNCHANGED codecVars
    /\ UNCHANGED simpleVars
    /\ UNCHANGED preset

NextOptions ==
    NextCall \/ ClockForward \/ SetCall \/ NewEpochCall \/ AddCall \/ PatchCall

SpecOptions == InitOptions /\ [][NextOptions]_vars

-----------------------------------------------------------------------------
(* The caller's Options are a copy of a registry entry: opt, _ :=
   Predefined(scene); m, _ := Make(opt), and the caller goes on using opt and
   looks scenes up again *)

\* opt, f := Predefined(scene): the scene's alias is resolved and the struct
\* the registry points to is copied, its segments slice and settings map with
\* it; an unknown scene gives Options{}
PredefinedCall ==
    /\ b.ready
    /\ \E scene \in {"sequence", "seqid", "testseqidext", "increment"} :
         LET a == IF scene = "seqid" THEN "sequence" ELSE scene
         IN IF a \in DOMAIN predefined
            THEN /\ opt' = predefined[a]
                 /\ preset' = [preset EXCEPT !.scene = a,
                                             !.parts = SharedByMake(predefined[a])]
                 /\ shared' = IF a = preset.builder THEN preset.made ELSE {}
            ELSE /\ opt' = Options(Zero, Zero, FALSE, <<>>, NoSettings)
                 /\ preset' = [preset EXCEPT !.scene = "", !.parts = {}]
                 /\ shared' = {}
    /\ UNCHANGED <<err, b, mutex, pc, local, clock, calls, log, served>>
    /\ UNCHANGED codecVars
    /\ UNCHANGED simpleVars
    /\ UNCHANGED predefined

\* a Builder made from a copy of a registry entry; Make has written the masks
\* into the segments the copy shares with the entry
InitPreset ==
    /\ InitOf({Registered[scene] : scene \in DOMAIN Registered})
    /\ \E scene \in DOMAIN Registered :
         /\ opt.segments = Make(Registered[scene], UnixMilli(0)).segments
         /\ predefined = [Registered EXCEPT ![scene] = opt]
         /\ preset = [scene |-> scene, parts |-> SharedByMake(opt),
                      builder |-> scene, made |-> SharedByMake(opt)]

\* one goroutine calls Next while the caller looks scenes up and changes opt
SpecPreset ==
    /\ InitPreset
    /\ [][\/ Lock(1) \/ TickRead(1) \/ TickSpin(1) \/ Pack(1) \/ ClockForward
          \/ PredefinedCall
          \/ SetCall \/ NewEpochCall \/ AddCall \/ PatchCall]_vars

-----------------------------------------------------------------------------
(* The codec on its own: an ID is encoded, the text decoded, and Bytes called *)

\* the Builder's variables while only the codec runs
BuilderIdle ==
    /\ opt = SeqIdLayout
    /\ err = NoError
    /\ b = NewBuilder(SeqIdLayout, 0)
    /\ mutex = {}
    /\ pc = [p \in Procs |-> "idle"]
    /\ local = [p \in Procs |-> NoLocal]
    /\ clock = 0
    /\ calls = 0
    /\ log = <<>>
    /\ served = {}
    /\ shared = SharedByMake(SeqIdLayout)

\* the halves of the IDs handed to the codec: small and large values, the S5
\* value 1670774400123, 2^63 - 1, and the negative values -1 and -2^63
MainChoices ==
    {Zero, One, FromNat(63), FromNat(64), Add(EpochMS, FromNat(123)), Mask(63),
     W64}
ExtChoices == {Zero, FromNat(42), Mask(63), {63}}

InitCodec ==
    /\ BuilderIdle
    /\ id \in [Main : MainChoices, Ext : ExtChoices, Signed : BOOLEAN]
    /\ aligned \in BOOLEAN
    /\ text = <<>>
    /\ decoded = NotDecoded
    /\ bytes = <<>>
    /\ SimpleIdle
    /\ RegistryIdle

\* Base64{Aligned: aligned}.Encode(&id)
EncodeCall ==
    /\ text = <<>>
    /\ text' = Encode(aligned, id)
    /\ UNCHANGED <<id, aligned, decoded, bytes>>
    /\ UNCHANGED builderVars
    /\ UNCHANGED simpleVars
    /\ UNCHANGED registryVars

\* Base64{Aligned: aligned}.Decode(text)
DecodeCall ==
    /\ text # <<>>
    /\ decoded = NotDecoded
    /\ decoded' = Decode(text)
    /\ UNCHANGED <<id, aligned, text, bytes>>
    /\ UNCHANGED builderVars
    /\ UNCHANGED simpleVars
    /\ UNCHANGED registryVars

\* id.Bytes()
BytesCall ==
    /\ bytes = <<>>
    /\ bytes' = Bytes(id)
    /\ UNCHANGED <<id, aligned, text, decoded>>
    /\ UNCHANGED builderVars
    /\ UNCHANGED simpleVars
    /\ UNCHANGED registryVars

NextCodec == EncodeCall \/ DecodeCall \/ BytesCall

SpecCodec == InitCodec /\ [][NextCodec]_vars

\* the strings passed to Decode: an optional sign marker, then two runs of
\* characters, each empty, a digit, a character outside the alphabet, or 11
\* or 12 digits with the values 0, 2^60, 2^63 - 1, 2^63, 15 * 2^60, 2^64,
\* 2^64 + 1, 2^66 - 1 and 2^69
DecodeStrings ==
    LET zeros(n) == [i \in 1..n |-> 0]
        runs == {<<>>, <<0>>, <<42>>, <<OtherChar>>, <<base64Signed>>,
                 zeros(11), <<1>> \o zeros(10),
                 <<7>> \o [i \in 1..10 |-> 63], <<8>> \o zeros(10),
                 <<15>> \o zeros(10), <<16>> \o zeros(10),
                 <<16>> \o zeros(9) \o <<1>>, [i \in 1..11 |-> 63],
                 <<8>> \o zeros(11)}
    IN {sign \o x \o m : sign \in {<<>>, <<base64Signed>>},
                          x \in runs, m \in runs}

\* Base64{}.Decode(no) of a string that need not come from Encode
DecodeString ==
    /\ decoded = NotDecoded
    /\ \E no \in DecodeStrings :
         /\ text' = no
         /\ decoded' = Decode(no)
    /\ UNCHANGED <<id, aligned, bytes>>
    /\ UNCHANGED builderVars
    /\ UNCHANGED simpleVars
    /\ UNCHANGED registryVars

\* nothing has been encoded or decoded yet
InitDecode == BuilderIdle /\ CodecIdle /\ SimpleIdle /\ RegistryIdle

SpecDecode == InitDecode /\ [][DecodeString]_vars

-----------------------------------------------------------------------------
(* Make and ResetEpoch on their own: a caller passes Options to Make, valid  *)
(* or not, and resets the epoch of the Builder it gets                      *)

\* the wall-clock millisecond `days` days before clock offset c
DaysBefore(c, days) ==
    Sub(UnixMilli(c), Mul(FromNat(days), FromNat(msPerDay)))

\* the segment lists passed to Make
MakeSegments ==
    {<<Sequence(12), Timestamp(41, TimestampMilliseconds),
       Node(NodeWidth, FromNat(4)), Host(HostWidth, FromNat(8))>>,
     <<Sequence(8), Timestamp(41, TimestampNanoseconds)>>,
     <<Sequence(8), Timestamp(41, TimestampMicroseconds)>>,
     <<Timestamp(31, TimestampSeconds), Sequence(14)>>,
     <<Timestamp(41, TimestampMilliseconds), Node(NodeWidth, FromNat(4))>>,
     <<Sequence(12), Node(NodeWidth, FromNat(4))>>,
     <<Sequence(12), Timestamp(10, TimeMillisecond)>>,
     <<Sequence(12), Timestamp(6, TimeSecond)>>,
     <<Random(20), Fixed(4, FromNat(9))>>,
     <<Sequence(4), Timestamp(6, TimeSecond)>>,
     <<Sequence(4), Timestamp(41, TimestampMilliseconds)>>,
     <<Sequence(7), Timestamp(41, TimestampMilliseconds)>>,
     <<Sequence(12), Sequence(4), Timestamp(41, TimestampMilliseconds)>>,
     <<Sequence(4), Sequence(12), Timestamp(41, TimestampMilliseconds)>>,
     <<Sequence(4), Sequence(4), Timestamp(41, TimestampMilliseconds)>>,
     <<>>,
     [i \in 1..(SegmentsLimit + 1) |-> Fixed(1, Zero)],
     <<Sequence(0), Timestamp(41, TimestampMilliseconds)>>,
     <<Sequence(12), Timestamp(64, TimestampMilliseconds)>>,
     <<Sequence(63), Timestamp(63, TimestampMilliseconds), Random(1)>>,
     <<Sequence(12), Timestamp(41, TimestampMilliseconds),
       Fixed(4, FromNat(99))>>,
     <<Sequence(12), Timestamp(41, TimestampMilliseconds),
       Bits("Unknown", 4, Zero, "", 0, "")>>,
     Snowflake(Zero, FromNat(16)).segments,
     Snowflake(Zero, FromNat(15)).segments,
     <<Sequence(12), Timestamp(41, TimestampMilliseconds),
       Arg(8, 0, FromNat(255)), Env(4, "SERVER_NODE_ID", FromNat(15)),
       Data(5, "my_data_source", FromNat(31), "hit"),
       Option(10, "test", FromNat(1023)), Fixed(4, FromNat(15))>>,
     <<Sequence(12), Timestamp(41, TimestampMilliseconds),
       Arg(8, 0, FromNat(256))>>,
     <<Sequence(12), Timestamp(41, TimestampMilliseconds),
       Env(4, "SERVER_NODE_ID", FromNat(16))>>,
     <<Sequence(12), Timestamp(41, TimestampMilliseconds),
       Data(5, "my_data_source", FromNat(32), "hit")>>,
     <<Timestamp(41, TimestampMilliseconds), Fixed(4, FromNat(16))>>}

\* Options.ReservedDays as callers set it: unset, or 30 days
ReservedDaysChoices == {Zero, FromNat(30)}

\* the epochs passed to Make and to ResetEpoch at clock offset c: a negative
\* one, unset, 40, 10 and 6 days ago, and tomorrow
EpochChoices(c) ==
    {Neg(One), Zero, DaysBefore(c, 40), DaysBefore(c, 10), DaysBefore(c, 6),
     Add(UnixMilli(c), FromNat(msPerDay))}

\* the Builder variable before Make has returned one
NoBuilderYet == [ready |-> FALSE, options |-> NoBuilder.options,
                 sequenceMask |-> Zero, sequence |-> Zero, now |-> <<>>]

InitMake ==
    /\ clock = 0
    /\ opt \in {Options(r, e, FALSE, segs, NoSettings) :
                  r \in ReservedDaysChoices, e \in EpochChoices(0),
                  segs \in MakeSegments}
    /\ err = NoError
    /\ b = NoBuilderYet
    /\ mutex = {}
    /\ pc = [p \in Procs |-> "idle"]
    /\ local = [p \in Procs |-> NoLocal]
    /\ calls = 0
    /\ log = <<>>
    /\ served = {}
    /\ shared = {}
    /\ CodecIdle
    /\ SimpleIdle
    /\ RegistryIdle

\* Make has been called and has returned
MakeReturned == b.ready \/ err # NoError

\* m, err := Make(opt)
MakeCall ==
    /\ ~MakeReturned
    /\ LET r == Make(opt, UnixMilli(clock))
       IN /\ b' = [ready |-> r.m.ready, options |-> r.m.options,
                   sequenceMask |-> r.m.sequenceMask, sequence |-> Zero,
                   now |-> <<>>]
          /\ err' = r.err
          /\ opt' = [opt EXCEPT !.segments = r.segments]
          /\ shared' = IF r.m.ready THEN SharedByMake(opt) ELSE {}
    /\ UNCHANGED <<mutex, pc, local, clock, calls, log, served>>
    /\ UNCHANGED codecVars
    /\ UNCHANGED simpleVars
    /\ UNCHANGED registryVars

\* err := m.ResetEpoch(epoch)
ResetEpochCall ==
    /\ b.ready
    /\ \E epoch \in EpochChoices(clock) :
         LET r == ResetEpoch(b.options, epoch, UnixMilli(clock))
         IN /\ b' = [b EXCEPT !.options.EpochMS = r.EpochMS]
            /\ err' = r.err
    /\ UNCHANGED <<opt, mutex, pc, local, clock, calls, log, served, shared>>
    /\ UNCHANGED codecVars
    /\ UNCHANGED simpleVars
    /\ UNCHANGED registryVars

NextMake == MakeCall \/ ResetEpochCall \/ ClockForward

SpecMake == InitMake /\ [][NextMake]_vars

-----------------------------------------------------------------------------
(* ResetEpoch on a Builder that goroutines call Next on, under a wall clock
   that never goes back.  ResetEpoch takes no lock: it runs between the steps
   of a Next in progress, and also while Next resolves its segments. *)

\* the epochs passed to ResetEpoch: 40 days before the Builder was made, 6
\* days ago, and the millisecond after the default epoch
ResetEpochs == {DaysBefore(0, 40), DaysBefore(clock, 6), Add(EpochMS, One)}

\* err := m.ResetEpoch(epoch), whatever the goroutines in Next are doing
ResetCall ==
    /\ b.ready
    /\ \E epoch \in ResetEpochs :
         LET r == ResetEpoch(b.options, epoch, UnixMilli(clock))
         IN /\ b' = [b EXCEPT !.options.EpochMS = r.EpochMS]
            /\ err' = r.err
    /\ UNCHANGED <<opt, mutex, pc, local, clock, calls, log, served, shared>>
    /\ UNCHANGED codecVars
    /\ UNCHANGED simpleVars
    /\ UNCHANGED registryVars

\* the rest of Next while another goroutine's ResetEpoch(epoch) succeeds:
\* the loop of Next has resolved the first cut segments when ResetEpoch
\* writes b.options.EpochMS, and resolves the others after that (a write
\* before the first or after the last segment is ResetCall before or after
\* Pack)
PackResetEpoch(p) ==
    /\ pc[p] = "pack"
    /\ \E epoch \in ResetEpochs, cut \in 1..(Len(b.options.segments) - 1),
          argv \in ArgvChoices(b.options.segments),
          rnd \in RandChoices(b.options.segments) :
         LET r == ResetEpoch(b.options, epoch, UnixMilli(clock))
             tr == b.now[1]
             seq == local[p].sequence
             head == [b.options EXCEPT
                        !.segments = SubSeq(b.options.segments, 1, cut)]
             acc0 == segmentsLoop(head, 1,
                                  [main |-> Zero, ext |-> Zero, shift |-> 0,
                                   overflow |-> FALSE, a |-> 0, vs |-> <<>>],
                                  tr, seq, argv, rnd)
             acc == segmentsLoop([b.options EXCEPT !.EpochMS = r.EpochMS],
                                 cut + 1, acc0, tr, seq, argv, rnd)
         IN /\ r.err = NoError
            /\ err' = r.err
            /\ b' = [b EXCEPT !.options.EpochMS = r.EpochMS]
            /\ log' = Append(log, [id |-> [Main |-> acc.main, Ext |-> acc.ext,
                                           Signed |-> b.options.Signed],
                                   Bits |-> acc.vs, ms |-> tr,
                                   sequence |-> seq, argv |-> argv,
                                   ticket |-> local[p].ticket])
    /\ served' = served \cup {p}
    /\ mutex' = mutex \ {p}
    /\ pc' = [pc EXCEPT ![p] = "idle"]
    /\ local' = [local EXCEPT ![p] = NoLocal]
    /\ UNCHANGED <<opt, clock, calls, shared>>
    /\ UNCHANGED codecVars
    /\ UNCHANGED simpleVars
    /\ UNCHANGED registryVars

InitReset == InitOf({DateTimeLayout(TimestampMilliseconds)}) /\ RegistryIdle

\* one goroutine calls Next, another ResetEpoch
SpecReset ==
    /\ InitReset
    /\ [][\/ Lock(1) \/ TickRead(1) \/ TickSpin(1) \/ Pack(1)
          \/ PackResetEpoch(1)
          \/ ResetCall
          \/ ClockForward]_vars

-----------------------------------------------------------------------------
(* Simple: the fixed layout sequence 12 | server 10 | timestamp 41, with a   *)
(* clock and sequence of its own                                            *)

\* seg: the width, shift and mask of sequence, server and timestamp
seg ==
    <<[width |-> 12, shift |-> 0, mask |-> Mask(12)],
      [width |-> 10, shift |-> 12, mask |-> Mask(10)],
      [width |-> 41, shift |-> 22, mask |-> Mask(41)]>>

\* the server ids passed to Simple: -1, 0, 16, 1023, 1024, 4095, 4096
ServerChoices ==
    {Neg(One), Zero, FromNat(16), FromNat(1023), FromNat(1024), FromNat(4095),
     FromNat(4096)}

\* the int64 the closure returns for b.now = now and b.sequence = sequence
SimpleValue(server, now, sequence) ==
    Or(Or(Shl(Sub(now, EpochMS), seg[3].shift), Shl(server, seg[2].shift)),
       sequence)

\* the closure after 4095 calls within the millisecond now: its state, and the
\* value it returned last
SimpleUsed(server, now) ==
    [pc |-> "idle", server |-> server, err |-> "", start |-> now, now |-> now,
     sequence |-> Sub(seg[1].mask, One), n |-> Zero,
     out |-> <<SimpleValue(server, now, Sub(seg[1].mask, One))>>]

InitSimple ==
    /\ BuilderIdle
    /\ CodecIdle
    /\ SimpleIdle
    /\ RegistryIdle

\* next, e := Simple(server); the closure is new, or has been called 4095
\* times within the current millisecond
SimpleCall ==
    /\ simple.pc = "new"
    /\ simple.err = ""
    /\ \E server \in ServerChoices :
         LET start == UnixMilli(clock)
         IN IF SLess(server, Zero) \/ SLess(seg[1].mask, server)
            THEN simple' = [simple EXCEPT !.server = server,
                              !.err = "server id is too small or too large"]
            ELSE IF SLess(Sub(start, EpochMS), Zero)
                    \/ SLess(seg[3].mask, Sub(start, EpochMS))
            THEN simple' = [simple EXCEPT !.server = server, !.start = start,
                              !.err = "server time error"]
            ELSE simple' \in {[simple EXCEPT !.pc = "idle", !.server = server,
                                             !.start = start],
                              SimpleUsed(server, start)}
    /\ UNCHANGED builderVars
    /\ UNCHANGED codecVars
    /\ UNCHANGED registryVars

\* the closure returns: it stores the sequence and the reading, and packs them
SimpleReturn(now, sequence) ==
    simple' = [simple EXCEPT !.pc = "idle", !.sequence = sequence, !.now = now,
                 !.n = Zero,
                 !.out = Append(@, SimpleValue(simple.server, now, sequence))]

\* a call of the closure up to its loop: read the clock, choose the sequence,
\* and enter the loop if the sequence wrapped, return if not
SimpleNext ==
    /\ simple.pc = "idle"
    /\ Len(simple.out) <= MaxCalls
    /\ LET now == UnixMilli(clock)
           sequence == IF simple.now = now
                       THEN And(Add(simple.sequence, One), seg[1].mask)
                       ELSE Zero
       IN IF simple.now = now /\ sequence = Zero
          THEN simple' = [simple EXCEPT !.pc = "spin", !.n = now]
          ELSE SimpleReturn(now, sequence)
    /\ UNCHANGED builderVars
    /\ UNCHANGED codecVars
    /\ UNCHANGED registryVars

\* one turn of the closure's loop: read the clock again, and return once it
\* reads later than b.now
SimpleSpin ==
    /\ simple.pc = "spin"
    /\ LET now == UnixMilli(clock)
       IN IF SLeq(now, simple.now)
          THEN simple' = [simple EXCEPT !.n = now]
          ELSE SimpleReturn(now, Zero)
    /\ UNCHANGED builderVars
    /\ UNCHANGED codecVars
    /\ UNCHANGED registryVars

NextSimple ==
    SimpleCall \/ SimpleNext \/ SimpleSpin \/ ClockForward \/ ClockBackward

SpecSimple == InitSimple /\ [][NextSimple]_vars

-----------------------------------------------------------------------------
(* Properties of Make and ResetEpoch, under SpecMake *)

\* the DateTime kinds that are timestamps
TimestampKinds ==
    {TimestampNanoseconds, TimestampMicroseconds, TimestampMilliseconds,
     TimestampSeconds}

HasSequence(segs) == \E i \in 1..Len(segs) : segs[i].Source = "SequenceID"

HasTimestamp(segs) ==
    \E i \in 1..Len(segs) :
        segs[i].Source = "DateTime" /\ segs[i].Index \in TimestampKinds

HasCalendarField(segs) ==
    \E i \in 1..Len(segs) :
        segs[i].Source = "DateTime" /\ segs[i].Index \notin TimestampKinds

RECURSIVE TotalWidth(_)
TotalWidth(segs) ==
    IF segs = <<>> THEN 0 ELSE Head(segs).Width + TotalWidth(Tail(segs))

\* the width of the widest SequenceID segment, 0 without one
WidestSequence(segs) ==
    LET widths == {segs[i].Width :
                     i \in {j \in 1..Len(segs) : segs[j].Source = "SequenceID"}}
    IN IF widths = {} THEN 0
       ELSE CHOOSE w \in widths : \A v \in widths : v <= w

\* Options that are valid but for the segment kinds they hold: the epoch and
\* the number of segments pass, every segment has a known source, a width in
\* 1..63 and a value within its mask, and the widths sum to at most 126
OtherwiseValid(o, nowMS) ==
    /\ checklist(o, nowMS) = NoError
    /\ \A i \in 1..Len(o.segments) :
         /\ o.segments[i].Source \in DataSourceTypes
         /\ o.segments[i].Width \in 1..bitsMaxWidth
         /\ o.segments[i].Source \in {"Static", "Args", "OS", "Settings", "Provider"}
              => SLeq(o.segments[i].Value, Mask(o.segments[i].Width))
    /\ TotalWidth(o.segments) <= 2 * bitsMaxWidth

SegmentMiss == invalidOption("Segments", "errorSegmentMiss")
TooSlow == invalidOption("Sequence.Width", "errorTooSlow")

\* C8: for every otherwise valid layout, Make returns the error SegmentMiss
\* of "Segments", and no Builder, exactly when the layout lacks a SequenceID
\* segment or lacks a DateTime segment of one of the four timestamp kinds; a
\* DateTime segment that is a calendar field does not count.
C8_SegmentMiss ==
    [][MakeCall /\ OtherwiseValid(opt, UnixMilli(clock)) =>
          LET lacks == ~HasSequence(opt.segments) \/ ~HasTimestamp(opt.segments)
          IN /\ lacks <=> err' = SegmentMiss
             /\ lacks => ~b'.ready]_vars

\* Make has rejected, for SegmentMiss, a layout with a SequenceID segment
\* whose only DateTime segment is a calendar field
C8_Witness ==
    /\ err = SegmentMiss /\ ~b.ready
    /\ HasSequence(opt.segments) /\ HasCalendarField(opt.segments)
    /\ ~HasTimestamp(opt.segments)

\* C9, as stated: in every Builder Make returned, every SequenceID segment
\* of the layout is at least 8 bits wide.
C9_EverySequenceWide ==
    b.ready =>
        \A i \in 1..Len(b.options.segments) :
            b.options.segments[i].Source = "SequenceID"
                => b.options.segments[i].Width >= 8

\* C9, amended: in every Builder Make returned the widest SequenceID segment
\* is at least 8 bits wide; and Make accepts an otherwise valid layout with
\* the two required segment kinds when its widest SequenceID segment is at
\* least 8 bits wide, and rejects it with TooSlow of "Sequence.Width" when
\* not.
C9_WidestSequenceWide ==
    /\ [](b.ready => WidestSequence(b.options.segments) >= 8)
    /\ [][MakeCall /\ OtherwiseValid(opt, UnixMilli(clock))
            /\ HasSequence(opt.segments) /\ HasTimestamp(opt.segments) =>
              IF WidestSequence(opt.segments) >= 8
              THEN b'.ready /\ err' = NoError
              ELSE ~b'.ready /\ err' = TooSlow]_vars

\* Make has rejected, for TooSlow, a layout whose SequenceID segment is 7
\* bits wide
C9_Witness ==
    /\ err = TooSlow /\ ~b.ready
    /\ WidestSequence(opt.segments) = 7 /\ HasTimestamp(opt.segments)

\* the larger of EpochReservedDays and the caller's ReservedDays, in days
ReservedDaysOf(o) ==
    IF SLess(FromNat(EpochReservedDays), o.ReservedDays) THEN o.ReservedDays
    ELSE FromNat(EpochReservedDays)

\* C10: after Make has succeeded, and after any ResetEpoch calls, the epoch
\* of the Builder is at least 0, at most now, and at least
\* max(7, ReservedDays) days of 86400000 ms before now.
C10_EpochReserved ==
    b.ready =>
        LET now == UnixMilli(clock)
        IN /\ SLeq(Zero, b.options.EpochMS)
           /\ SLeq(b.options.EpochMS, now)
           /\ SLeq(Mul(ReservedDaysOf(b.options), FromNat(msPerDay)),
                   Sub(now, b.options.EpochMS))

\* the sources whose Value Make compares with the mask
ValueSources == {"Static", "Args", "OS", "Settings", "Provider"}

\* Options that pass every check Make makes before it compares values: the
\* rules of checklist, known sources, widths in 1..63 that sum to at most 126
PassesEarlierChecks(o, nowMS) ==
    /\ checklist(o, nowMS) = NoError
    /\ \A i \in 1..Len(o.segments) :
         /\ o.segments[i].Source \in DataSourceTypes
         /\ o.segments[i].Width \in 1..bitsMaxWidth
    /\ TotalWidth(o.segments) <= 2 * bitsMaxWidth

\* a segment of a value source holds a Value above (1 << width) - 1
HasOversizeValue(segs) ==
    \E i \in 1..Len(segs) :
        /\ segs[i].Source \in ValueSources
        /\ SLess(Mask(segs[i].Width), segs[i].Value)

InvalidValue == invalidOption("Segments", "errorInvalidValue")

\* C11: for every layout that passes the checks made before it, Make returns
\* the error InvalidValue of "Segments", and no Builder, exactly when a
\* segment of source Static, Args, OS, Settings or Provider holds a Value
\* greater than (1 << width) - 1; a Value equal to (1 << width) - 1 does not
\* raise it.
C11_InvalidValue ==
    [][MakeCall /\ PassesEarlierChecks(opt, UnixMilli(clock)) =>
          /\ HasOversizeValue(opt.segments) <=> err' = InvalidValue
          /\ err' = InvalidValue => ~b'.ready]_vars

\* Make has rejected Snowflake(0, 16), whose Node segment of 4 bits holds 16
C11_Witness ==
    /\ err = InvalidValue /\ ~b.ready
    /\ \E i \in 1..Len(opt.segments) :
         /\ opt.segments[i].Key = "Node" /\ opt.segments[i].Width = NodeWidth
         /\ opt.segments[i].Value = FromNat(16)

\* C24: ResetEpoch(e) returns EpochTooSmall when e < 0, EpochTooLarge when
\* e > now and TooPoor when now - e is below the reserve of
\* max(7, ReservedDays) days, and then leaves the Builder as it was;
\* otherwise it returns nil and the epoch becomes e, e = 0 included, with
\* nothing else changed.
C24_ResetEpochOutcome ==
    [][ResetEpochCall =>
         \E e \in EpochChoices(clock) :
             LET now == UnixMilli(clock)
                 reserve == Mul(ReservedDaysOf(b.options), FromNat(msPerDay))
                 reason == IF SLess(e, Zero) THEN "errorEpochTooSmall"
                           ELSE IF SLess(now, e) THEN "errorEpochTooLarge"
                           ELSE IF SLess(Sub(now, e), reserve)
                           THEN "errorTooPoor"
                           ELSE ""
             IN IF reason = ""
                THEN /\ err' = NoError
                     /\ b' = [b EXCEPT !.options.EpochMS = e]
                ELSE /\ err' = invalidOption("EpochMS", reason)
                     /\ b' = b]_vars

\* the violation that comes first in the order epoch (too large, too poor),
\* segment count (empty, too many), segments in declaration order, missing
\* segment, sequence too narrow
FirstViolation(o, nowMS) ==
    LET min0 == FromNat(EpochReservedDays * msPerDay)
        min == IF SLess(min0, o.ReservedDays) THEN o.ReservedDays ELSE min0
        walk == segmentLoop(o.segments, 1, 0, {"DateTime", "SequenceID"}, 0)
    IN IF SLess(nowMS, o.EpochMS)
       THEN invalidOption("EpochMS", "errorEpochTooLarge")
       ELSE IF SLess(Sub(nowMS, o.EpochMS), min)
       THEN invalidOption("EpochMS", "errorTooPoor")
       ELSE IF Len(o.segments) = 0
       THEN invalidOption("Segments", "errorSegmentsEmpty")
       ELSE IF Len(o.segments) > SegmentsLimit
       THEN invalidOption("Segments", "errorSegmentsTooMany")
       ELSE IF walk.err # NoError THEN walk.err
       ELSE IF walk.required # {}
       THEN invalidOption("Segments", "errorSegmentMiss")
       ELSE IF walk.sequenceWidth < 8
       THEN invalidOption("Sequence.Width", "errorTooSlow")
       ELSE NoError

\* C21: when an Options value breaks more than one rule, Make reports the
\* violation that comes first in the order: epoch too large, epoch too poor,
\* segments empty, too many segments, the checks of each segment in
\* declaration order, segment missing, sequence too slow.
C21_ErrorOrder ==
    [][MakeCall => err' = FirstViolation(opt, UnixMilli(clock))]_vars

-----------------------------------------------------------------------------
(* Properties of Simple, under SpecSimple *)

\* Simple has returned: a generator, or an error
SimpleReturned == simple.pc # "new" \/ simple.err # ""

\* C14: Simple(server) returns an error and no generator for every server
\* outside [0, 1023], and a generator and no error for every server inside
\* [0, 1023] (the wall clock of the model is always past the default epoch).
C14_ServerRange ==
    SimpleReturned =>
        IF SLeq(Zero, simple.server) /\ SLeq(simple.server, FromNat(1023))
        THEN simple.pc # "new" /\ simple.err = ""
        ELSE simple.pc = "new" /\ simple.err # ""

\* C15: every value the generator of Simple(server) returns is greater than
\* the value its previous call returned, also when the sequence wraps within
\* a millisecond.
C15_SimpleIncreases ==
    \A k \in 1..(Len(simple.out) - 1) : SLess(simple.out[k], simple.out[k + 1])

-----------------------------------------------------------------------------
(* Properties of the codec, under SpecCodec *)

\* the IDs whose halves both lie in [0, 2^63)
InRange(i) == 63 \notin i.Main /\ 63 \notin i.Ext

\* an aligned Encode of an ID in range has been decoded again
AlignedRoundTrip == aligned /\ InRange(id) /\ decoded # NotDecoded

\* C5, as stated: for every ID with 0 <= Main < 2^63 and 0 <= Ext < 2^63 and
\* either value of Signed, the aligned Decode of the aligned Encode succeeds
\* and returns the ID in all three fields, the signed all-zero IDs included.
C5_RoundTripAllFields ==
    AlignedRoundTrip => decoded.err = "" /\ decoded.id = id

\* C5, amended: for every such ID the aligned Decode of the aligned Encode
\* succeeds and returns Main and Ext unchanged; it returns Signed unchanged
\* unless both halves are zero, and then it returns Signed = false.
C5_RoundTrip ==
    AlignedRoundTrip =>
        /\ decoded.err = ""
        /\ decoded.id.Main = id.Main
        /\ decoded.id.Ext = id.Ext
        /\ decoded.id.Signed = (id.Signed /\ (id.Main # Zero \/ id.Ext # Zero))

\* a signed ID with both halves set has gone through the aligned round trip
C5_Witness ==
    /\ AlignedRoundTrip
    /\ id.Signed /\ id.Ext = FromNat(42) /\ id.Main = Add(EpochMS, FromNat(123))
    /\ Len(text) = 1 + 2 * base64Widths

\* C22: for either setting of Aligned and every ID with 0 <= Main < 2^63
\* and 0 <= Ext < 2^63, Decode(Encode(id)) succeeds and returns the same
\* Main and Ext; whenever Ext > 0 the last 11 characters of the text are the
\* Main part and the characters before them, the sign marker apart, the Ext
\* part.
C22_RoundTripBothSettings ==
    InRange(id) =>
        /\ decoded # NotDecoded =>
              /\ decoded.err = ""
              /\ decoded.id.Main = id.Main
              /\ decoded.id.Ext = id.Ext
        /\ text # <<>> /\ id.Ext # Zero =>
              LET n == Len(text)
                  i == IF text[1] = base64Signed THEN 1 ELSE 0
              IN /\ n - i > base64Widths
                 /\ parseBits(SubSeq(text, n - base64Widths + 1, n))
                      = [v |-> id.Main, err |-> ""]
                 /\ parseBits(SubSeq(text, i + 1, n - base64Widths))
                      = [v |-> id.Ext, err |-> ""]

\* an ID with Main = 0 and Ext = 42 has gone through the round trip without
\* Aligned: its text is the digit of 42 and 11 padding characters
C22_Witness ==
    /\ ~aligned /\ ~id.Signed
    /\ id.Main = Zero /\ id.Ext = FromNat(42)
    /\ text = <<42>> \o Paddings(base64Widths)
    /\ decoded.err = "" /\ decoded.id.Ext = FromNat(42)

\* the number a run of digits denotes, as the set of its one bits
DigitsValue(s) ==
    UNION {{j + 6 * (Len(s) - k) : j \in FromNat(s[k])} : k \in 1..Len(s)}

\* C23: Decode returns an error and no ID for the empty string, for the sign
\* marker alone, for a string with a character outside the alphabet other
\* than a leading sign marker, and for a string whose main or ext portion is
\* 2^63 or more: with the reason "number overflows" when the portion does
\* not fit 64 bits and "value out of range" when it is in [2^63, 2^64).
\* Whenever Decode returns an ID, its Main and Ext are in [0, 2^63).
C23_DecodeErrors ==
    decoded # NotDecoded =>
        LET s == text # <<>> /\ text[1] = base64Signed
            i == IF s THEN 1 ELSE 0
            n == Len(text)
            split == n - i > base64Widths
            m == IF split THEN SubSeq(text, n - base64Widths + 1, n)
                 ELSE SubSeq(text, i + 1, n)
            x == IF split THEN SubSeq(text, i + 1, n - base64Widths) ELSE <<>>
            digits(p) == \A k \in 1..Len(p) : p[k] \in 0..63
            over(p) == \E j \in DigitsValue(p) : j >= 64
            range(p) == ~over(p) /\ 63 \in DigitsValue(p)
        IN /\ decoded.err # "" => decoded.id = NilID
           /\ decoded.err = "" => InRange(decoded.id)
           /\ n - i = 0 => decoded.err # ""
           /\ ~digits(m) \/ ~digits(x) => decoded.err # ""
           /\ digits(m) /\ digits(x) =>
                /\ over(m) \/ (~range(m) /\ over(x)) =>
                      decoded.err = "number overflows"
                /\ range(m) \/ (~over(m) /\ range(x)) =>
                      decoded.err = "value out of range"

\* C6: for every ID (here: every ID whose halves are not negative), Bytes
\* returns 16 bytes whose first eight, read as a little-endian uint64, are
\* Main and whose last eight are Ext.
C6_BytesRoundTrip ==
    bytes # <<>> /\ InRange(id) =>
        /\ Len(bytes) = 16
        /\ Uint64(SubSeq(bytes, 1, 8)) = id.Main
        /\ Uint64(SubSeq(bytes, 9, 16)) = id.Ext

-----------------------------------------------------------------------------
(* Properties of Next, under Spec (any wall clock) and SpecMono (a wall     *)
(* clock that never goes back)                                              *)

\* the (millisecond, sequence) pair of log entry i is below that of entry j
PairBefore(i, j) ==
    \/ log[i].ms < log[j].ms
    \/ log[i].ms = log[j].ms /\ ULess(log[i].sequence, log[j].sequence)

\* C1: no two IDs that the Next calls on one Builder returned have the same
\* (Main, Ext) pair.  (The wall clock of the model goes back by at most
\* MaxClock milliseconds, far less than the sequence capacity of any layout,
\* so the exception the claim makes never applies.)
C1_Unique ==
    \A i, j \in 1..Len(log) :
        i # j => <<log[i].id.Main, log[i].id.Ext>> # <<log[j].id.Main, log[j].id.Ext>>

\* C2: from each Next call on one Builder to the following one, the pair of
\* the millisecond tick stored and the sequence tick returned strictly
\* increases in lexicographic order, whatever the wall clock does.
C2_PairIncreases ==
    \A i \in 1..(Len(log) - 1) : PairBefore(i, i + 1)

\* C3: with several goroutines calling Next on one Builder under a wall clock
\* that never goes back, the calls do not interleave (at most one goroutine
\* is past b.Lock() at a time), and the (millisecond, sequence) pairs handed
\* out strictly increase in the order the mutex was acquired, so that no two
\* callers receive the same pair.
C3_Serialised ==
    /\ Cardinality(mutex) <= 1
    /\ \A p, q \in Procs : p # q => pc[p] = "idle" \/ pc[q] = "idle"
    /\ \A p \in Procs : pc[p] # "idle" => mutex = {p}
    /\ \A i, j \in 1..Len(log) :
         log[i].ticket < log[j].ticket =>
            /\ PairBefore(i, j)
            /\ <<log[i].ms, log[i].sequence>> # <<log[j].ms, log[j].sequence>>

\* both goroutines have been returned IDs, two of them within one
\* millisecond, and one goroutine is inside Next again
C3_Witness ==
    /\ served = Procs
    /\ \E i \in 1..(Len(log) - 1) : log[i].ms = log[i + 1].ms
    /\ \E p \in Procs : pc[p] = "pack"

\* a segment's resolved value normalised to [0, mask]: negative -> 0, & mask
Normalised(f, width) == IF 63 \in f THEN Zero ELSE f \cap Mask(width)

\* the concatenation of the normalised values vs of the segments segs, segment
\* 1 lowest, as the set of its one bits
Concatenation(segs, vs) ==
    UNION {{j + TotalWidth(SubSeq(segs, 1, i - 1)) :
              j \in Normalised(vs[i], segs[i].Width)} : i \in 1..Len(segs)}

\* C4: for every layout Make accepted and every call of Next, Main is the low
\* 63 bits, and Ext the bits above them, of the concatenation of the segments'
\* normalised values in declaration order, the first segment lowest.
C4_ReferencePacking ==
    \A k \in 1..Len(log) :
        LET bits == Concatenation(b.options.segments, log[k].Bits)
        IN /\ log[k].id.Main = {j \in bits : j < bitsMaxWidth}
           /\ log[k].id.Ext = {j - bitsMaxWidth : j \in {x \in bits : x >= bitsMaxWidth}}

\* the 126-bit concatenation Ext:Main of an ID, as the set of its one bits
IDBits(i) ==
    {j \in i.Main : j < bitsMaxWidth} \cup {j + bitsMaxWidth : j \in i.Ext}

\* the bit-range of width w at offset off of bits, as a number
BitRange(bits, off, w) == {j - off : j \in {x \in bits : off <= x /\ x < off + w}}

\* C12: for every layout Make accepted with a Static segment of value v and
\* width w, at any position, every ID Next generated holds v & ((1 << w) - 1)
\* in the bit-range of that segment of the concatenation Ext:Main.
C12_StaticBits ==
    \A k \in 1..Len(log) :
        \A i \in 1..Len(b.options.segments) :
            LET segment == b.options.segments[i]
                off == TotalWidth(SubSeq(b.options.segments, 1, i - 1))
            IN segment.Source = "Static" =>
                 BitRange(IDBits(log[k].id), off, segment.Width)
                   = And(segment.Value, Mask(segment.Width))

\* the sources and widths of a layout's segments
Shape(segs) == [i \in 1..Len(segs) |-> <<segs[i].Source, segs[i].Width>>]

\* the Options the Builder was made from, as they were when Make was called
MadeFrom ==
    CHOOSE o \in OptionsLayouts : Shape(o.segments) = Shape(b.options.segments)

\* the caller changes its Options: Set, NewEpoch, Add or Patch
OptionsChange == SetCall \/ NewEpochCall \/ AddCall \/ PatchCall

\* C13: after Make(opt) has returned a Builder, no Set, NewEpoch, Add or Patch
\* on the caller's Options changes the Builder's segments, settings or epoch,
\* and every ID Next returns is the ID of the Options as Make was given them.
C13_OptionsIndependent ==
    /\ [][OptionsChange => b'.options = b.options]_vars
    /\ [](\A k \in 1..Len(log) :
            log[k].id = NextID(NewBuilder(MadeFrom, 0).options, log[k].ms,
                               log[k].sequence, log[k].argv,
                               [i \in 1..Len(b.options.segments) |-> Zero]).id)

\* the number of Args segments declared before segment i
ArgsBefore(segs, i) ==
    Cardinality({j \in 1..(i - 1) : segs[j].Source = "Args"})

\* the value segment i resolved to in the call of log entry k is the one its
\* source yields, and its fallback Value where the source yields nothing
Resolved(k, i) ==
    LET segment == b.options.segments[i]
        f == log[k].Bits[i]
        a == ArgsBefore(b.options.segments, i)
        env == LookupEnv(segment.Key)
        read == data(segment.Key, segment.query)
    IN CASE segment.Source = "Args" ->
              f = IF Len(log[k].argv) > a THEN log[k].argv[a + 1]
                  ELSE segment.Value
         [] segment.Source = "OS" ->
              f = IF env.found /\ env.parsed THEN env.w ELSE segment.Value
         [] segment.Source = "Settings" ->
              f = IF segment.Key \in DOMAIN b.options.settings
                  THEN b.options.settings[segment.Key] ELSE segment.Value
         [] segment.Source = "Provider" ->
              f = IF read.ok THEN read.v ELSE segment.Value
         [] OTHER -> TRUE

CountsUp ==
    \A k \in 2..Len(log) :
        IF log[k].ms = log[k - 1].ms
        THEN /\ log[k].sequence = Add(log[k - 1].sequence, One)
             /\ SLeq(log[k].sequence, b.sequenceMask)
        ELSE log[k].sequence = Zero

\* a caller is in tick's loop only after sequenceMask + 1 values were handed
\* out in the last millisecond, and it will get the sequence 0
WaitsWhenUsedUp ==
    \A p \in Procs :
        pc[p] = "spin" => b.sequence = b.sequenceMask /\ local[p].sequence = Zero

\* a call reading the last millisecond again gets the next sequence value at
\* once unless all sequenceMask + 1 are used up, and then enters the loop; it
\* leaves the loop only on a reading above the last millisecond, which it
\* stores with the sequence 0
TickSteps ==
    \A p \in Procs :
        /\ TickRead(p) =>
              IF UnixMilli(clock) = LastMilli
              THEN IF b.sequence = b.sequenceMask
                   THEN pc'[p] = "spin" /\ b' = b
                   ELSE /\ pc'[p] = "pack"
                        /\ b'.sequence = Add(b.sequence, One)
                        /\ b'.now = b.now
              ELSE pc'[p] = "pack" /\ b'.sequence = Zero /\ b'.now = <<clock>>
        /\ TickSpin(p) =>
              IF SLess(LastMilli, UnixMilli(clock))
              THEN /\ pc'[p] = "pack"
                   /\ b'.sequence = Zero /\ b'.now = <<clock>>
              ELSE pc'[p] = "spin" /\ b' = b

\* C18: while the wall clock stays at one millisecond, successive Next calls
\* get the sequence values 0, 1, ..., sequenceMask in order without waiting;
\* the next call in that millisecond does not return before the clock reads a
\* later millisecond, and then returns the sequence 0, with that later
\* millisecond stored as the last one.
C18_SequenceInOrder ==
    /\ [](CountsUp /\ WaitsWhenUsedUp)
    /\ [][TickSteps]_vars

\* a call got the last sequence value of a millisecond, and the next call
\* got the sequence 0 in a later millisecond
C18_Witness ==
    \E k \in 2..Len(log) :
        /\ log[k - 1].sequence = b.sequenceMask
        /\ log[k].sequence = Zero
        /\ log[k].ms = log[k - 1].ms + 1
        /\ clock = log[k].ms

\* C20: when the widths of the first k segments of a layout sum to exactly
\* 63, segment k + 1 occupies the lowest bits of Ext and every later segment
\* follows it: Ext is the concatenation of the normalised values of the
\* segments after the k-th, so a random value of the 63-bit segment added to
\* the snowflake layout is found in Ext.
C20_ExtAfterFullMain ==
    \A k \in 1..Len(log) :
        \A i \in 1..(Len(b.options.segments) - 1) :
            LET segs == b.options.segments
                rest == SubSeq(segs, i + 1, Len(segs))
                vs == SubSeq(log[k].Bits, i + 1, Len(segs))
            IN TotalWidth(SubSeq(segs, 1, i)) = bitsMaxWidth =>
                 /\ log[k].id.Ext = Concatenation(rest, vs)
                 /\ And(log[k].id.Ext, Mask(segs[i + 1].Width))
                      = Normalised(log[k].Bits[i + 1], segs[i + 1].Width)

\* C25: within one Next call every DateTime segment, timestamp or calendar
\* field, is computed from the one clock reading that tick stored as the
\* last time for that call: the reading the sequence was chosen for and,
\* after a wait, the reading that ended the wait.
C25_OneReading ==
    /\ [](\A p \in Procs :
            pc[p] = "pack" =>
                b.now = <<local[p].n>> /\ b.sequence = local[p].sequence)
    /\ [][\A p \in Procs :
            pc[p] = "pack" /\ pc'[p] = "idle" =>
                LET id1 == log'[Len(log')]
                IN /\ Len(log') = Len(log) + 1
                   /\ id1.ms = local[p].n
                   /\ id1.sequence = local[p].sequence
                   /\ \A i \in 1..Len(b.options.segments) :
                        LET segment == b.options.segments[i]
                        IN segment.Source = "DateTime" =>
                             id1.Bits[i] = datetime(segment.Index, local[p].n,
                                                    b.options.EpochMS)]_vars

\* the call after the last sequence value of a millisecond ..999 has
\* returned second + 1 and millisecond 0, both of the reading that ended its
\* wait, while the clock has gone back since
C25_Witness ==
    \E k \in 2..Len(log) :
        /\ log[k - 1].sequence = b.sequenceMask /\ log[k - 1].ms = 0
        /\ log[k].sequence = Zero /\ log[k].ms = 1
        /\ log[k].Bits[1] = Add(log[k - 1].Bits[1], One)
        /\ b.options.segments[3].Index = TimeMillisecond
        /\ log[k - 1].Bits[3] = FromNat(999)
        /\ log[k].Bits[3] = Zero
        /\ clock = 0

\* C26: two IDs that one Builder generated at different clock milliseconds
\* differ in a DateTime or SequenceID segment, also when the only timestamp
\* of the layout counts seconds and no segment holds the millisecond.
C26_DistinctByTime ==
    \A j, k \in 1..Len(log) :
        log[j].ms # log[k].ms =>
            \E i \in 1..Len(b.options.segments) :
                LET segment == b.options.segments[i]
                IN /\ segment.Source \in {"DateTime", "SequenceID"}
                   /\ Normalised(log[j].Bits[i], segment.Width)
                        # Normalised(log[k].Bits[i], segment.Width)

\* C27: when ResetEpoch runs concurrently with Next, all timestamp segments
\* of one ID are computed against one epoch: the epoch in force before the
\* ResetEpoch or the one after it, never a mix.
C27_OneEpoch ==
    [][\A p \in Procs :
         pc[p] = "pack" /\ pc'[p] = "idle" =>
             LET id1 == log'[Len(log')]
             IN \E e \in {b.options.EpochMS, b'.options.EpochMS} :
                    \A i \in 1..Len(b.options.segments) :
                        LET segment == b.options.segments[i]
                        IN segment.Source = "DateTime" =>
                             id1.Bits[i] = datetime(segment.Index, id1.ms, e)]_vars

\* the epoch a generated ID was computed against, from the raw value of the
\* millisecond timestamp of its layout
EpochOf(k) ==
    LET segs == b.options.segments
        i == CHOOSE i \in 1..Len(segs) :
                 segs[i].Source = "DateTime"
                 /\ segs[i].Index = TimestampMilliseconds
    IN Sub(UnixMilli(log[k].ms), log[k].Bits[i])

\* C28: with a wall clock that never goes back, every ID generated after a
\* successful ResetEpoch differs in (Main, Ext) from every ID generated
\* before it, whatever accepted epoch was passed.
C28_DistinctAcrossEpochs ==
    \A j, k \in 1..Len(log) :
        j < k /\ EpochOf(j) # EpochOf(k) =>
            log[j].id.Main # log[k].id.Main \/ log[j].id.Ext # log[k].id.Ext

\* a layout as it was declared: without the masks Make writes
Declared(o) ==
    [o EXCEPT !.segments = [i \in 1..Len(o.segments) |->
                              [o.segments[i] EXCEPT !.mask = Zero]]]

\* C29: changing an Options value obtained from Predefined (Patch, Set,
\* NewEpoch, Add) never changes the registry: a later Predefined call with the
\* same scene returns the layout, settings and epoch that were registered,
\* and a Builder already made from the preset is unaffected.
C29_RegistryUnchanged ==
    /\ [][OptionsChange => predefined' = predefined /\ b'.options = b.options]_vars
    /\ [][PredefinedCall /\ preset'.scene # ""
            => Declared(opt') = Registered[preset'.scene]]_vars

\* C30: for every Builder Make returned, the value written into a DateTime
\* segment of a timestamp kind is the full offset of the clock from the epoch
\* in the segment's unit, never a truncation of it: the offset fits in the
\* segment's mask.
C30_TimestampFits ==
    \A k \in 1..Len(log) : \A i \in 1..Len(b.options.segments) :
        LET segment == b.options.segments[i]
        IN segment.Source = "DateTime" /\ segment.Index \in TimestampKinds =>
             /\ SLeq(Zero, log[k].Bits[i])
             /\ SLeq(log[k].Bits[i], Mask(segment.Width))
             /\ BitRange(IDBits(log[k].id), TotalWidth(SubSeq(b.options.segments, 1, i - 1)),
                         segment.Width) = log[k].Bits[i]

\* C19: every Next call eventually returns and releases the mutex, provided
\* the wall clock eventually reads a millisecond later than the last stored
\* one: the loop entered when the sequence wraps ends, so a waiting caller
\* does not keep the mutex, and the other callers, for ever.
C19_NextReturns ==
    /\ [][\A p \in Procs :
            TickSpin(p) /\ b.now # <<>> /\ clock > b.now[1] =>
                pc'[p] = "pack" /\ p \in mutex']_vars
    /\ \A p \in Procs :
         (pc[p] # "idle") ~> (pc[p] = "idle" /\ p \notin mutex /\ p \in served)

\* a caller waits in tick's loop, holding the mutex, while the clock still
\* reads the last stored millisecond
C19_Witness ==
    \E p \in Procs :
        /\ pc[p] = "spin"
        /\ mutex = {p}
        /\ UnixMilli(clock) = LastMilli
        /\ \E q \in Procs \ {p} : pc[q] = "idle"

\* a layout of SequenceID, millisecond Timestamp and constant segments only
SequenceOnly(segs) ==
    \A i \in 1..Len(segs) :
        \/ segs[i].Source \in {"SequenceID", "Static", "Settings"}
        \/ segs[i].Source = "DateTime" /\ segs[i].Index = TimestampMilliseconds

\* C7: for a layout of SequenceID, millisecond Timestamp and constant
\* segments only, the int64 values successive NextInt64 calls on one Builder
\* return are all at least 1, and each is greater than the one before it.
C7_Int64Increases ==
    SequenceOnly(b.options.segments) =>
        /\ \A k \in 1..Len(log) : SLeq(One, log[k].id.Main)
        /\ \A k \in 1..(Len(log) - 1) : SLess(log[k].id.Main, log[k + 1].id.Main)

=============================================================================
